---- MODULE Spec2Model ----
(***************************************************************************)
(* RadonServices: the claim / process / commit loop of the pipeline        *)
(* scripts, run by several hosts against one PostgreSQL backlog.           *)
(*                                                                         *)
(*   AbstractScript._start, schedule_stop, _on_complete and Pipeline       *)
(*     (commons/orchestration/pipeline.py)                                 *)
(*   PostgresClient.cursor        (commons/utils/sql_utils.py)             *)
(*   AugmentScript.run_batch, parallel_process, insert_result,             *)
(*     insert_error               (augment/src/script.py)                  *)
(*   run_in_parallel / _run       (commons/utils/parallel_utils.py)        *)
(*   run_script, parallel_process, insert_result, insert_error             *)
(*                                (augmentations/src/script.py)            *)
(*   postgres                     (augmentations/sql_util.py)              *)
(*   RunningErrorCalculator       (augmentations/src/running_error.py)     *)
(*   AugmentResult, RandomAugmenter (commons/models/augmenters.py)         *)
(***************************************************************************)
EXTENDS Integers, Sequences, FiniteSets, TLC

\* ---------------------------------------------------------------- bounds
NumUnits == 3
MaxIter == 2
BatchSpan == 2
\* THREAD_COUNT is read from the environment (default 64) and is the LIMIT
\* of the claim query of run_script
THREAD_COUNT == 2

\* run_in_parallel: longest arg_list and largest thread_count
MaxItems == 3
MaxWorkers == 3

\* RunningErrorCalculator: method calls followed per run
MaxCalcOps == 3
\* significant bits of a float; Python's float has 53, the model keeps
\* fewer so that the first inexact sums stay small
MantissaBits == 12

\* random_augment: largest count argument
MaxCount == 2

\* side of the grid RadonTransformer.transform resamples on (40 in the
\* source), and the largest height and width of an image
Side == 4

\* RadonScript: SQL_BATCH_SIZE is read from the environment (default 200)
\* and is the LIMIT of the claim query of run_batch
SQL_BATCH_SIZE == 2
\* rows of the galaxies table, and requests sent to the Flask server
NumGalaxies == 3
MaxRequests == 2

\* how often one band is claimed at most
MaxClaims == 2

\* the worker threads of one run_in_parallel call of FetchScript (4 in the
\* source)
FetchThreadCount == 2

\* ------------------------------------------------------ program constants
AUGMENTATION_COUNT == 100
MAX_RUNNING_ERROR_COUNT == 100
\* fetch/src/constants.py: the default of MAX_FAILS
MAX_FAILS == 1

\* two hosts run the same script against the one backlog
Hosts == {1, 2}
Units == 1..NumUnits
NoHost == 0

\* total_error values a finished RunningErrorCalculator may carry
ErrTotals == {90}

\* rows of the rotations table as a previous run may have left them
\* (a run with a smaller AUGMENTATION_COUNT leaves running_count below
\* MAX_RUNNING_ERROR_COUNT)
PriorRow == [total_error |-> 7, running_count |-> 50]

VARIABLES
    pc,               \* position of each host's loop thread
    should_stop,      \* AbstractScript._should_stop
    iteration,        \* AbstractScript.iteration
    server_up,        \* the control-surface server of the Pipeline is serving
    complete_calls,   \* how often the execution-complete callback has run
    tx_open,          \* the host's connection is inside a transaction
    metadata_list,    \* rows returned by the claim query of the running batch
    process_results,  \* what run_in_parallel returned for the running batch
    tx_writes,        \* UPDATE statements executed by the open transaction
    successful,       \* local counter of run_batch
    failed,           \* local counter of run_batch
    last_end,         \* how the host's last transaction ended
    locals_bound,     \* run_script has assigned its locals successful, failed
    lock,             \* row lock owner per unit (FOR UPDATE)
    has_error,        \* bands.has_error, committed
    error_count,      \* bands.error_count, committed (schema of run_script)
    rotation_id,      \* rotations.id of the rotations row of each band
    total_error,      \* rotations.total_error, committed
    running_count,    \* rotations.running_count, committed
    sum_total,        \* initial total_error plus committed success totals
    sum_count,        \* initial running_count plus committed success counts
    terminal          \* the units with a committed outcome

vars == <<pc, should_stop, iteration, server_up, complete_calls, tx_open,
          metadata_list, process_results, tx_writes, successful, failed,
          last_end, locals_bound, lock, has_error, error_count, rotation_id, total_error,
          running_count, sum_total, sum_count, terminal>>

hostVars == <<pc, should_stop, iteration, server_up, complete_calls>>
txVars == <<tx_open, metadata_list, process_results, successful, failed,
            last_end, locals_bound>>
storeVars == <<has_error, error_count, rotation_id, total_error, running_count>>
sumVars == <<sum_total, sum_count, terminal>>

\* one call of run_in_parallel (commons/utils/parallel_utils.py)
VARIABLES
    arg_list,         \* the items, arg_list[i + 1] is Python's arg_list[i]
    raising,          \* the items for which the function raises
    thread_count,     \* thread_count
    result_list,      \* result_list, indexed from 0
    threads,          \* how many threads the coordinator has started
    joined,           \* how many threads the coordinator has joined
    co_pc,            \* position of the coordinator in run_in_parallel
    w_pc,             \* position of each worker thread in _run
    w_i,              \* the loop variable i of each worker thread
    calls,            \* per index, the workers that called the function on it
    returned          \* the list run_in_parallel returned

parVars == <<arg_list, raising, thread_count, result_list, threads, joined,
             co_pc, w_pc, w_i, calls, returned>>

\* no call of run_in_parallel is modelled thread by thread
ParIdle ==
    /\ arg_list = <<>>
    /\ raising = {}
    /\ thread_count = 1
    /\ result_list = <<>>
    /\ threads = 0
    /\ joined = 0
    /\ co_pc = "idle"
    /\ w_pc = <<>>
    /\ w_i = <<>>
    /\ calls = <<>>
    /\ returned = <<>>

\* RunningErrorCalculator objects (augmentations/src/running_error.py)
VARIABLES
    calc,             \* a RunningErrorCalculator: total_error, running_count
    calc2,            \* a second RunningErrorCalculator
    c_ops,            \* how many method calls have been made
    c_last,           \* the last method call: arguments, result, state before
    m_a, m_b, m_c,    \* three RunningErrorCalculator objects as constructed
    m_res             \* the objects after the merges made so far

calcVars == <<calc, calc2, c_ops, c_last>>
mergeVars == <<m_a, m_b, m_c, m_res>>

\* RunningErrorCalculator(): total_error = 0.0, running_count = 0
RunningErrorCalculator == [total_error |-> 0, running_count |-> 0]

NoCall ==
    [op |-> "none", self |-> 0, expected |-> 0, actual |-> 0, ret |-> 0, den |-> 0,
     raised |-> FALSE, before |-> RunningErrorCalculator, after |-> RunningErrorCalculator]

CalcIdle ==
    /\ calc = RunningErrorCalculator
    /\ calc2 = RunningErrorCalculator
    /\ c_ops = 0
    /\ c_last = NoCall

MergeIdle ==
    /\ m_a = RunningErrorCalculator
    /\ m_b = RunningErrorCalculator
    /\ m_c = RunningErrorCalculator
    /\ m_res = <<>>

\* one call of RandomAugmenter.random_augment (commons/models/augmenters.py)
VARIABLES
    a_image,          \* the image argument
    a_count,          \* the count argument
    a_results,        \* results
    a_selected,       \* the selected_augmenters not yet applied
    a_result,         \* augment_result
    a_pc              \* position in random_augment

augVars == <<a_image, a_count, a_results, a_selected, a_result, a_pc>>

\* an image: the transforms applied to the original, and whether every
\* pixel is non-negative
OriginalImage == [hist |-> <<>>, nonneg |-> TRUE]

\* augment_result = None
NoAugmentResult == [result_image |-> OriginalImage, angle_delta |-> -1, metadata |-> <<>>]

AugIdle ==
    /\ a_image = OriginalImage
    /\ a_count = 0
    /\ a_results = <<>>
    /\ a_selected = <<>>
    /\ a_result = NoAugmentResult
    /\ a_pc = "idle"

\* one image taken through CircleMaskGenerator, LowPassDenosier and
\* RadonTransformer (commons/models)
VARIABLES
    raw_image,        \* the image argument
    mask,             \* what CircleMaskGenerator.generate returned
    masked_image,     \* what CircleMaskGenerator.apply_mask returned
    denoised,         \* what LowPassDenosier.denoise returned
    transform_result, \* what RadonTransformer.transform returned or raised
    rotations,        \* what the calls of get_rotation returned, in order
    img_pc,           \* which of the calls have been made
    built             \* what BandFitsBuilder.build returned

imgVars == <<raw_image, mask, masked_image, denoised, transform_result,
             rotations, img_pc, built>>

\* an image: shape is <<shape[0], shape[1]>>, data maps <<row, col>> to a pixel
NoImage == [shape |-> <<0, 0>>, data |-> <<>>]

\* no RadonTransformResult yet
NoTransformResult == [raised |-> FALSE, raw_image |-> NoImage, sinogram |-> NoImage]

ImgIdle ==
    /\ raw_image = NoImage
    /\ mask = <<>>
    /\ masked_image = NoImage
    /\ denoised = NoImage
    /\ transform_result = NoTransformResult
    /\ rotations = <<>>
    /\ img_pc = "idle"
    /\ built = NoImage

\* one Pipeline with its RadonScript (commons/orchestration/pipeline.py,
\* radon/src/script.py)
VARIABLES
    container_id,       \* Pipeline.container_id
    container_port,     \* Pipeline.container_port
    server,             \* Pipeline.server: "serving" or "shutdown"
    executed,           \* the calls of shutdown_callback.execute so far
    shutdown_step,      \* the statement of Pipeline.shutdown to run next
    r_pc,               \* position of the script thread
    r_should_stop,      \* AbstractScript._should_stop
    r_iteration,        \* AbstractScript.iteration
    iteration_progress, \* RadonScript.iteration_progress
    metadata,           \* metadata of run_batch
    result_rows,        \* result_rows of run_batch
    galaxy_status,      \* galaxies.status, committed
    requests,           \* how many requests the server has answered
    response            \* the response to the last request

radVars == <<container_id, container_port, server, executed, shutdown_step,
             r_pc, r_should_stop, r_iteration, iteration_progress, metadata,
             result_rows, galaxy_status, requests, response>>

NoResponse == [route |-> "none", action |-> "none", code |-> 0, body |-> <<>>]

RadIdle ==
    /\ container_id = ""
    /\ container_port = 0
    /\ server = "none"
    /\ executed = <<>>
    /\ shutdown_step = 1
    /\ r_pc = "idle"
    /\ r_should_stop = FALSE
    /\ r_iteration = 0
    /\ iteration_progress = 0
    /\ metadata = <<>>
    /\ result_rows = <<>>
    /\ galaxy_status = <<>>
    /\ requests = 0
    /\ response = NoResponse

\* one band from its claim to its commit, in AugmentScript.run_batch
\* (augment/src/script.py) or in run_script (augmentations/src/script.py)
VARIABLES
    u_script,         \* which of the two scripts runs
    u_metadata,       \* the claimed row: <<id of the row of bands, id of the
                      \* row of rotations>>
    u_data,           \* the pixels of the band in the FITS file
    u_pc,             \* position in the batch
    u_calls,          \* the components parallel_process has run
    u_result,         \* what parallel_process returned
    u_failed,         \* ids of the rows of bands that are marked failed
    u_updated,        \* ids of the rows of rotations that got totals added
    u_claims          \* how often the band has been claimed

unitVars == <<u_script, u_metadata, u_data, u_pc, u_calls, u_result, u_failed,
              u_updated, u_claims>>

NoUnitResult == [running_count |-> 0, is_error |-> FALSE]

UnitIdle ==
    /\ u_script = "none"
    /\ u_metadata = <<0, 0>>
    /\ u_data = <<>>
    /\ u_pc = "idle"
    /\ u_calls = <<>>
    /\ u_result = NoUnitResult
    /\ u_failed = {}
    /\ u_updated = {}
    /\ u_claims = 0

\* FetchScript hosts on one galaxies table (fetch/src/script.py)
VARIABLES
    f_status,           \* galaxies.status of every row, as committed
    f_failed_attempts,  \* galaxies.failed_attempts of every row, as committed
    f_lock,             \* the host whose open transaction holds the row lock
    f_pc,               \* where each host's script thread is
    f_should_stop,      \* self.should_stop of each host
    f_iteration,        \* self.iteration of each host
    f_results,          \* the local results of each host's run_batch
    fetch_results,      \* what run_in_parallel returned to each host
    status_cache,       \* self.status_cache of each host
    f_calls             \* the calls each host's loop has made, in order

fHostVars == <<f_status, f_failed_attempts, f_lock, f_pc, f_should_stop,
               f_iteration, f_results, fetch_results, status_cache, f_calls>>

\* the worker threads of one run_in_parallel call of FetchScript.run_batch
VARIABLES
    t_rows,                \* len(results)
    f_iteration_progress,  \* self.iteration_progress
    t_pc,                  \* where each worker thread is
    t_i,                   \* the loop variable i of each worker thread
    t_loaded,              \* the value each thread has read for the += 1
    t_result_list,         \* result_list
    t_returned             \* run_in_parallel has returned

fThreadVars == <<t_rows, f_iteration_progress, t_pc, t_i, t_loaded,
                 t_result_list, t_returned>>

fetchVars == <<fHostVars, fThreadVars>>

FetchHostsIdle ==
    /\ f_status = <<>>
    /\ f_failed_attempts = <<>>
    /\ f_lock = <<>>
    /\ f_pc = <<>>
    /\ f_should_stop = <<>>
    /\ f_iteration = <<>>
    /\ f_results = <<>>
    /\ fetch_results = <<>>
    /\ status_cache = <<>>
    /\ f_calls = <<>>

FetchThreadsIdle ==
    /\ t_rows = 0
    /\ f_iteration_progress = 0
    /\ t_pc = <<>>
    /\ t_i = <<>>
    /\ t_loaded = <<>>
    /\ t_result_list = <<>>
    /\ t_returned = FALSE

FetchIdle == FetchHostsIdle /\ FetchThreadsIdle

coreLibVars == <<parVars, calcVars, mergeVars, augVars>>
CoreLibIdle == ParIdle /\ CalcIdle /\ MergeIdle /\ AugIdle
extVars == <<imgVars, radVars, unitVars, fetchVars>>
ExtIdle == ImgIdle /\ RadIdle /\ UnitIdle /\ FetchIdle
libVars == <<coreLibVars, extVars>>
LibIdle == CoreLibIdle /\ ExtIdle

\* ------------------------------------------------------------- the store

\* .batch file a band belongs to (bands.batch_id)
BatchOf(u) == ((u - 1) \div BatchSpan) + 1

\* augment_view: the bands still to be processed
InAugmentView(u) ==
    /\ ~has_error[u]
    /\ running_count[u] < MAX_RUNNING_ERROR_COUNT

\* FOR UPDATE SKIP LOCKED: a row locked by another transaction is skipped
SkipLockedOff(h, u) == TRUE
SkipLocked(h, u) == lock[u] \in {NoHost, h}

AllUnits == [i \in 1..NumUnits |-> i]

\* SELECT batch_id FROM augment_view LIMIT 1 (no ORDER BY, no locking clause)
FirstBatchIds == {BatchOf(u) : u \in {v \in Units : InAugmentView(v)}}

\* SELECT ... FROM augment_view WHERE batch_id = b
\*   ORDER BY source_id, fits_index FOR UPDATE SKIP LOCKED
ClaimRows(h, b) ==
    SelectSeq(AllUnits,
              LAMBDA u : BatchOf(u) = b /\ InAugmentView(u) /\ SkipLocked(h, u))

SeqRange(s) == {s[i] : i \in 1..Len(s)}

\* ------------------------------------------------------ worker functions

Tuple(band_uid, err, count, is_error) ==
    [kind |-> "tuple", band_uid |-> band_uid, total_error |-> err,
     running_count |-> count, is_error |-> is_error]

\* a function call that ended with an exception
RaisedResult ==
    [kind |-> "raised", band_uid |-> 0, total_error |-> 0, running_count |-> 0,
     is_error |-> FALSE]

\* the initial value of a slot of result_list
NoneResult ==
    [kind |-> "None", band_uid |-> 0, total_error |-> 0, running_count |-> 0,
     is_error |-> FALSE]

\* what the processing of one band does: it raises, or it ends with a
\* RunningErrorCalculator updated AUGMENTATION_COUNT times
Outcomes ==
    {[raises |-> TRUE, err |-> 0]} \cup {[raises |-> FALSE, err |-> e] : e \in ErrTotals}

\* AugmentScript.parallel_process: an exception of the processing is caught
\* and turned into the tuple (band_uid, None, True)
parallel_process_no_try(band_uid, o) ==
    IF o.raises THEN RaisedResult
    ELSE Tuple(band_uid, o.err, AUGMENTATION_COUNT, FALSE)
parallel_process(band_uid, o) ==
    IF o.raises THEN Tuple(band_uid, 0, 0, TRUE)
    ELSE Tuple(band_uid, o.err, AUGMENTATION_COUNT, FALSE)

\* _run: the slot keeps None when the function raised
run_slot(r) == IF r.kind = "raised" THEN NoneResult ELSE r

\* run_in_parallel: slot i holds the result for item i
run_in_parallel(rows, outs) ==
    [i \in 1..Len(rows) |-> run_slot(parallel_process(rows[i], outs[i]))]

\* ------------------------------------------------------- SQL statements

\* AugmentScript.insert_result:
\*   UPDATE rotations SET total_error = total_error + %s,
\*          running_count = running_count + %s WHERE band_uid = %s
insert_result(band_uid, r) ==
    [table |-> "rotations", column |-> "band_uid", key |-> band_uid,
     effect |-> "add_totals",
     total_error |-> r.total_error, running_count |-> r.running_count]

\* AugmentScript.insert_error: UPDATE bands SET has_error = TRUE WHERE uid = %s
insert_error(band_uid) ==
    [table |-> "bands", column |-> "uid", key |-> band_uid,
     effect |-> "set_has_error", total_error |-> 0, running_count |-> 0]

\* the rows an UPDATE statement matches, named by the band they belong to
TargetUnits(w) ==
    IF w.table = "rotations" /\ w.column = "id"
    THEN {v \in Units : rotation_id[v] = w.key}
    ELSE {v \in Units : v = w.key}

\* the committed tables after one UPDATE statement
ApplyWrite(st, w) ==
    LET hit == TargetUnits(w) IN
    CASE w.effect = "set_has_error" ->
           [st EXCEPT !.has_error = [v \in Units |-> IF v \in hit THEN TRUE ELSE @[v]]]
      [] w.effect = "inc_error_count" ->
           [st EXCEPT !.error_count = [v \in Units |-> IF v \in hit THEN @[v] + 1 ELSE @[v]]]
      [] w.effect = "add_totals" ->
           [st EXCEPT !.total_error =
                          [v \in Units |-> IF v \in hit THEN @[v] + w.total_error ELSE @[v]],
                      !.running_count =
                          [v \in Units |-> IF v \in hit THEN @[v] + w.running_count ELSE @[v]]]

RECURSIVE ApplyWrites(_, _)
ApplyWrites(st, ws) ==
    IF ws = <<>> THEN st ELSE ApplyWrites(ApplyWrite(st, Head(ws)), Tail(ws))

Store ==
    [has_error |-> has_error, error_count |-> error_count,
     total_error |-> total_error, running_count |-> running_count]

SetStore(st) ==
    /\ has_error' = st.has_error
    /\ error_count' = st.error_count
    /\ total_error' = st.total_error
    /\ running_count' = st.running_count
    /\ UNCHANGED rotation_id

\* the sums of the successes of a committed batch, per claimed row
RECURSIVE AddSuccesses(_, _, _)
AddSuccesses(sm, rows, rs) ==
    IF rs = <<>> \/ rows = <<>> THEN sm
    ELSE LET r == Head(rs)
             nx == IF r.kind = "tuple" /\ ~r.is_error
                   THEN [sm EXCEPT !.total[Head(rows)] = @ + r.total_error,
                                   !.count[Head(rows)] = @ + r.running_count]
                   ELSE sm
         IN AddSuccesses(nx, Tail(rows), Tail(rs))

\* ---------------------------------------------- PostgresClient.cursor

ReleaseLocks(h) == [u \in Units |-> IF lock[u] = h THEN NoHost ELSE lock[u]]

\* connection.rollback(): the writes are dropped and the row locks released
rollback_keeps_locks(h) ==
    /\ lock' = lock
    /\ tx_writes' = [tx_writes EXCEPT ![h] = <<>>]
    /\ UNCHANGED storeVars
    /\ UNCHANGED sumVars
rollback(h) ==
    /\ lock' = ReleaseLocks(h)
    /\ tx_writes' = [tx_writes EXCEPT ![h] = <<>>]
    /\ UNCHANGED storeVars
    /\ UNCHANGED sumVars

\* connection.commit(): the writes become visible together, the locks go
commit(h) ==
    /\ lock' = ReleaseLocks(h)
    /\ tx_writes' = [tx_writes EXCEPT ![h] = <<>>]
    /\ SetStore(ApplyWrites(Store, tx_writes[h]))
    /\ LET sm == AddSuccesses([total |-> sum_total, count |-> sum_count],
                              metadata_list[h], process_results[h])
       IN /\ sum_total' = sm.total
          /\ sum_count' = sm.count
    /\ terminal' = terminal \cup SeqRange(metadata_list[h])

\* cursor.execute of UPDATE statements inside the transaction: nothing is visible
\* to other connections before the commit
execute_autocommit(h, ws) ==
    /\ tx_writes' = [tx_writes EXCEPT ![h] = @ \o ws]
    /\ SetStore(ApplyWrites(Store, ws))
execute(h, ws) ==
    /\ tx_writes' = [tx_writes EXCEPT ![h] = @ \o ws]
    /\ UNCHANGED <<has_error, error_count, total_error, running_count>>

\* the transaction of the with block is over
EndTx(h, how) ==
    /\ tx_open' = [tx_open EXCEPT ![h] = FALSE]
    /\ metadata_list' = [metadata_list EXCEPT ![h] = <<>>]
    /\ process_results' = [process_results EXCEPT ![h] = <<>>]
    /\ last_end' = [last_end EXCEPT ![h] = how]
    /\ UNCHANGED locals_bound

\* pool.putconn of a connection that is still inside a transaction: the
\* pool rolls it back before it takes it back
putconn(h) == rollback(h)

\* ------------------------------------------------ AbstractScript, Pipeline

InBatch == {"claim", "process", "commit"}

\* AbstractScript.schedule_stop
schedule_stop(h) == should_stop' = [should_stop EXCEPT ![h] = TRUE]

\* while not self._should_stop: the test at the top of the loop
LoopExits_ignores_flag(h) == FALSE
LoopExits(h) == should_stop[h]

\* _start: the loop test; a new run_batch opens the with block
LoopTest(h) ==
    /\ pc[h] = "loop"
    /\ IF LoopExits(h)
       THEN /\ pc' = [pc EXCEPT ![h] = "complete"]
            /\ UNCHANGED <<tx_open, successful, failed>>
       ELSE /\ iteration[h] < MaxIter
            /\ pc' = [pc EXCEPT ![h] = "claim"]
            /\ tx_open' = [tx_open EXCEPT ![h] = TRUE]
            /\ successful' = [successful EXCEPT ![h] = 0]
            /\ failed' = [failed EXCEPT ![h] = 0]
    /\ UNCHANGED <<should_stop, iteration, server_up, complete_calls,
                   metadata_list, process_results, tx_writes, last_end,
                   locals_bound, lock>>
    /\ UNCHANGED storeVars
    /\ UNCHANGED sumVars
    /\ UNCHANGED libVars

\* run_batch: the claim query returned rows, which are now locked
ClaimBatch(h) ==
    /\ pc[h] = "claim"
    /\ \E b \in FirstBatchIds :
          LET rows == ClaimRows(h, b) IN
          /\ rows # <<>>
          /\ metadata_list' = [metadata_list EXCEPT ![h] = rows]
          /\ lock' = [u \in Units |-> IF u \in SeqRange(rows) THEN h ELSE lock[u]]
    /\ pc' = [pc EXCEPT ![h] = "process"]
    /\ UNCHANGED <<should_stop, iteration, server_up, complete_calls, tx_open,
                   process_results, tx_writes, successful, failed, last_end,
                   locals_bound>>
    /\ UNCHANGED storeVars
    /\ UNCHANGED sumVars
    /\ UNCHANGED libVars

\* run_batch: the claim query returned no row: schedule_stop and return,
\* which leaves the with block and commits the empty transaction
stop_on_empty_forgotten(h) == UNCHANGED should_stop
stop_on_empty(h) == schedule_stop(h)

ClaimEmpty(h) ==
    /\ pc[h] = "claim"
    /\ \/ FirstBatchIds = {}
       \/ \E b \in FirstBatchIds : ClaimRows(h, b) = <<>>
    /\ stop_on_empty(h)
    /\ commit(h)
    /\ EndTx(h, "empty")
    /\ pc' = [pc EXCEPT ![h] = "status"]
    /\ UNCHANGED <<iteration, server_up, complete_calls, successful, failed>>
    /\ UNCHANGED libVars

\* run_batch: the claim query raises a DatabaseError; cursor() rolls back
\* and swallows it, and the print after the with block reads the locals
\* successful, failed and metadata_list, which were never assigned
ClaimDbError(h) ==
    /\ pc[h] = "claim"
    /\ rollback(h)
    /\ EndTx(h, "database_error")
    /\ pc' = [pc EXCEPT ![h] = "dead"]
    /\ UNCHANGED <<should_stop, iteration, server_up, complete_calls,
                   successful, failed>>
    /\ UNCHANGED libVars

\* run_batch: reading the .batch file raises; the exception is no
\* DatabaseError, so cursor() only returns the connection to the pool and
\* the exception leaves run_batch and _start
LoadBatchError(h) ==
    /\ pc[h] = "process"
    /\ putconn(h)
    /\ EndTx(h, "load_error")
    /\ pc' = [pc EXCEPT ![h] = "dead"]
    /\ UNCHANGED <<should_stop, iteration, server_up, complete_calls,
                   successful, failed>>
    /\ UNCHANGED libVars

\* the loop without its else branch: a failed result gets no statement
InsertStatements_no_failure_mark(rs) ==
    LET ok == SelectSeq(rs, LAMBDA r : r.kind = "tuple" /\ ~r.is_error)
    IN [i \in 1..Len(ok) |-> insert_result(ok[i].band_uid, ok[i])]

\* the statements of the loop over zip(metadata_list, process_results), up
\* to the first slot that holds None
RECURSIVE InsertStatements(_)
InsertStatements(rs) ==
    IF rs = <<>> \/ Head(rs).kind = "None" THEN <<>>
    ELSE <<IF ~Head(rs).is_error
           THEN insert_result(Head(rs).band_uid, Head(rs))
           ELSE insert_error(Head(rs).band_uid)>> \o InsertStatements(Tail(rs))

CountErrors(rs, flag) ==
    Cardinality({i \in 1..Len(rs) : rs[i].kind = "tuple" /\ rs[i].is_error = flag})

\* run_batch: run_in_parallel over the claimed rows, then the loop that
\* executes one UPDATE per (metadata, process_result) pair
ProcessBatch(h) ==
    /\ pc[h] = "process"
    /\ \E outs \in [1..Len(metadata_list[h]) -> Outcomes] :
          LET rs == run_in_parallel(metadata_list[h], outs) IN
          IF \E i \in 1..Len(rs) : rs[i].kind = "None"
          THEN \* unpacking None raises a TypeError, which leaves run_batch
               /\ putconn(h)
               /\ EndTx(h, "type_error")
               /\ pc' = [pc EXCEPT ![h] = "dead"]
               /\ UNCHANGED <<successful, failed>>
          ELSE /\ process_results' = [process_results EXCEPT ![h] = rs]
               /\ execute(h, InsertStatements(rs))
               /\ successful' = [successful EXCEPT ![h] = CountErrors(rs, FALSE)]
               /\ failed' = [failed EXCEPT ![h] = CountErrors(rs, TRUE)]
               /\ pc' = [pc EXCEPT ![h] = "commit"]
               /\ UNCHANGED <<tx_open, metadata_list, last_end, locals_bound, lock>>
               /\ UNCHANGED rotation_id
               /\ UNCHANGED sumVars
    /\ UNCHANGED <<should_stop, iteration, server_up, complete_calls>>
    /\ UNCHANGED libVars

\* run_batch: an UPDATE or the commit raises a DatabaseError; cursor() rolls
\* back and swallows it, and run_batch returns
BatchDbError(h) ==
    /\ pc[h] \in {"process", "commit"}
    /\ rollback(h)
    /\ EndTx(h, "database_error")
    /\ pc' = [pc EXCEPT ![h] = "status"]
    /\ UNCHANGED <<should_stop, iteration, server_up, complete_calls,
                   successful, failed>>
    /\ UNCHANGED libVars

\* cursor(): the with block ends and the transaction commits
CommitBatch(h) ==
    /\ pc[h] = "commit"
    /\ commit(h)
    /\ EndTx(h, "commit")
    /\ pc' = [pc EXCEPT ![h] = "status"]
    /\ UNCHANGED <<should_stop, iteration, server_up, complete_calls,
                   successful, failed>>
    /\ UNCHANGED libVars

\* _start: update_batch_status and the iteration counter
AfterBatch(h) ==
    /\ pc[h] = "status"
    /\ iteration' = [iteration EXCEPT ![h] = @ + 1]
    /\ pc' = [pc EXCEPT ![h] = "loop"]
    /\ successful' = [successful EXCEPT ![h] = 0]
    /\ failed' = [failed EXCEPT ![h] = 0]
    /\ last_end' = [last_end EXCEPT ![h] = IF @ = "empty" THEN @ ELSE "none"]
    /\ UNCHANGED <<should_stop, server_up, complete_calls, lock>>
    /\ UNCHANGED <<tx_open, metadata_list, process_results, tx_writes,
                   locals_bound>>
    /\ UNCHANGED storeVars
    /\ UNCHANGED sumVars
    /\ UNCHANGED libVars

\* _on_complete: the callback Pipeline.shutdown notifies the supervisor and
\* shuts the server down
OnComplete(h) ==
    /\ pc[h] = "complete"
    /\ complete_calls' = [complete_calls EXCEPT ![h] = @ + 1]
    /\ server_up' = [server_up EXCEPT ![h] = FALSE]
    /\ pc' = [pc EXCEPT ![h] = "done"]
    /\ UNCHANGED <<should_stop, iteration, lock>>
    /\ UNCHANGED txVars
    /\ UNCHANGED tx_writes
    /\ UNCHANGED storeVars
    /\ UNCHANGED sumVars
    /\ UNCHANGED libVars

\* POST /control {action: "stop"} -> Pipeline.stop_script -> schedule_stop
StopRequest(h) ==
    /\ server_up[h]
    /\ schedule_stop(h)
    /\ UNCHANGED <<pc, iteration, server_up, complete_calls, lock>>
    /\ UNCHANGED txVars
    /\ UNCHANGED tx_writes
    /\ UNCHANGED storeVars
    /\ UNCHANGED sumVars
    /\ UNCHANGED libVars

\* ----------------------------------------------------------- the system

\* the bands whose rotations row carries the totals of a previous run
PriorUnits == {{}, {1}}

Init ==
    /\ pc = [h \in Hosts |-> "loop"]
    /\ should_stop = [h \in Hosts |-> FALSE]
    /\ iteration = [h \in Hosts |-> 0]
    /\ server_up = [h \in Hosts |-> TRUE]
    /\ complete_calls = [h \in Hosts |-> 0]
    /\ tx_open = [h \in Hosts |-> FALSE]
    /\ metadata_list = [h \in Hosts |-> <<>>]
    /\ process_results = [h \in Hosts |-> <<>>]
    /\ tx_writes = [h \in Hosts |-> <<>>]
    /\ successful = [h \in Hosts |-> 0]
    /\ failed = [h \in Hosts |-> 0]
    /\ last_end = [h \in Hosts |-> "none"]
    /\ locals_bound = [h \in Hosts |-> FALSE]
    /\ lock = [u \in Units |-> NoHost]
    /\ has_error = [u \in Units |-> FALSE]
    /\ error_count = [u \in Units |-> 0]
    /\ rotation_id = [u \in Units |-> u]
    /\ terminal = {}
    /\ \E prior \in PriorUnits :
          /\ total_error =
                [u \in Units |-> IF u \in prior THEN PriorRow.total_error ELSE 0]
          /\ running_count =
                [u \in Units |-> IF u \in prior THEN PriorRow.running_count ELSE 0]
    /\ sum_total = total_error
    /\ sum_count = running_count
    /\ LibIdle

HostStep(h) ==
    \/ LoopTest(h)
    \/ ClaimBatch(h)
    \/ ClaimEmpty(h)
    \/ ClaimDbError(h)
    \/ LoadBatchError(h)
    \/ ProcessBatch(h)
    \/ BatchDbError(h)
    \/ CommitBatch(h)
    \/ AfterBatch(h)
    \/ OnComplete(h)

Next == \E h \in Hosts : HostStep(h) \/ StopRequest(h)

Spec == Init /\ [][Next]_vars

\* the loop thread of every host keeps running
FairSpec == Spec /\ \A h \in Hosts : WF_vars(HostStep(h))

\* -------------------------------------- run_script (augmentations/src)

\* the row (b.id, r.id, ...) the claim query of run_script returns for band u
MetadataRow(u) == <<u, rotation_id[u]>>

\* WHERE r.running_count < MAX_RUNNING_ERROR_COUNT AND b.error_count = 0
Eligible(u) ==
    /\ running_count[u] < MAX_RUNNING_ERROR_COUNT
    /\ error_count[u] = 0

\* ORDER BY b.id LIMIT THREAD_COUNT FOR UPDATE SKIP LOCKED
LegacyClaimRows(h) ==
    LET free == SelectSeq(AllUnits, LAMBDA u : Eligible(u) /\ SkipLocked(h, u))
    IN SubSeq(free, 1, IF Len(free) < THREAD_COUNT THEN Len(free) ELSE THREAD_COUNT)

\* parallel_process of run_script: (running_error_calculator, False), or
\* (None, True) when anything raised
legacy_parallel_process(o) ==
    IF o.raises THEN Tuple(0, 0, 0, TRUE)
    ELSE Tuple(0, o.err, AUGMENTATION_COUNT, FALSE)

\* run_in_parallel of src.parallel_util: slot i holds the result for item i
legacy_run_in_parallel(outs) ==
    [i \in 1..Len(outs) |-> legacy_parallel_process(outs[i])]

\* insert_result(cursor, rotation_id, error):
\*   UPDATE rotations SET total_error = total_error + %s,
\*          running_count = running_count + %s WHERE id = %s
legacy_insert_result(id, r) ==
    [table |-> "rotations", column |-> "id", key |-> id, effect |-> "add_totals",
     total_error |-> r.total_error, running_count |-> r.running_count]

\* insert_error(cursor, band_id):
\*   UPDATE bands SET error_count = error_count + 1 WHERE id = %s
legacy_insert_error(id) ==
    [table |-> "bands", column |-> "id", key |-> id, effect |-> "inc_error_count",
     total_error |-> 0, running_count |-> 0]

\* the loop over zip(metadata_list, process_results) of run_script:
\* insert_result gets metadata[0], insert_error gets metadata[1]
LegacyStatements(rows, rs) ==
    [i \in 1..Len(rows) |->
        IF ~rs[i].is_error
        THEN legacy_insert_result(MetadataRow(rows[i])[1], rs[i])
        ELSE legacy_insert_error(MetadataRow(rows[i])[2])]

WrittenUnits(ws) == UNION {TargetUnits(ws[i]) : i \in 1..Len(ws)}

\* while not stop_script: ... with postgres() as cursor
L_LoopTest(h) ==
    /\ pc[h] = "loop"
    /\ IF should_stop[h]
       THEN /\ pc' = [pc EXCEPT ![h] = "done"]
            /\ UNCHANGED tx_open
       ELSE /\ iteration[h] <= MaxIter
            /\ pc' = [pc EXCEPT ![h] = "claim"]
            /\ tx_open' = [tx_open EXCEPT ![h] = TRUE]
    /\ UNCHANGED <<should_stop, iteration, server_up, complete_calls,
                   metadata_list, process_results, tx_writes, successful,
                   failed, last_end, locals_bound, lock>>
    /\ UNCHANGED storeVars
    /\ UNCHANGED sumVars
    /\ UNCHANGED libVars

\* the claim query returned rows
L_ClaimBatch(h) ==
    /\ pc[h] = "claim"
    /\ LET rows == LegacyClaimRows(h) IN
          /\ rows # <<>>
          /\ metadata_list' = [metadata_list EXCEPT ![h] = rows]
          /\ lock' = [u \in Units |-> IF u \in SeqRange(rows) THEN h ELSE lock[u]]
    /\ pc' = [pc EXCEPT ![h] = "process"]
    /\ UNCHANGED <<should_stop, iteration, server_up, complete_calls, tx_open,
                   process_results, tx_writes, successful, failed, last_end,
                   locals_bound>>
    /\ UNCHANGED storeVars
    /\ UNCHANGED sumVars
    /\ UNCHANGED libVars

\* the claim query returned no row: set_stop_script() and break, which
\* leaves the with block (commit) and the while loop
L_ClaimEmpty(h) ==
    /\ pc[h] = "claim"
    /\ LegacyClaimRows(h) = <<>>
    /\ schedule_stop(h)
    /\ commit(h)
    /\ EndTx(h, "empty")
    /\ pc' = [pc EXCEPT ![h] = "done"]
    /\ UNCHANGED <<iteration, server_up, complete_calls, successful, failed>>
    /\ UNCHANGED libVars

\* the claim query raises a DatabaseError: postgres() rolls back and
\* swallows it; the print after the with block reads successful and failed,
\* which are unbound unless an earlier batch has assigned them
L_ClaimDbError(h) ==
    /\ pc[h] = "claim"
    /\ rollback(h)
    /\ EndTx(h, "database_error")
    /\ IF locals_bound[h]
       THEN /\ pc' = [pc EXCEPT ![h] = "loop"]
            /\ iteration' = [iteration EXCEPT ![h] = @ + 1]
       ELSE /\ pc' = [pc EXCEPT ![h] = "dead"]
            /\ UNCHANGED iteration
    /\ UNCHANGED <<should_stop, server_up, complete_calls, successful, failed>>
    /\ UNCHANGED libVars

\* run_in_parallel over the claimed rows, then one UPDATE per row; an UPDATE
\* waits while another transaction holds the lock of a row it matches
L_ProcessBatch(h) ==
    /\ pc[h] = "process"
    /\ \E outs \in [1..Len(metadata_list[h]) -> Outcomes] :
          LET rs == legacy_run_in_parallel(outs)
              ws == LegacyStatements(metadata_list[h], rs)
          IN /\ \A v \in WrittenUnits(ws) : lock[v] \in {NoHost, h}
             /\ lock' = [v \in Units |-> IF v \in WrittenUnits(ws) THEN h ELSE lock[v]]
             /\ process_results' = [process_results EXCEPT ![h] = rs]
             /\ execute(h, ws)
             /\ successful' = [successful EXCEPT ![h] = CountErrors(rs, FALSE)]
             /\ failed' = [failed EXCEPT ![h] = CountErrors(rs, TRUE)]
    /\ locals_bound' = [locals_bound EXCEPT ![h] = TRUE]
    /\ pc' = [pc EXCEPT ![h] = "commit"]
    /\ UNCHANGED <<should_stop, iteration, server_up, complete_calls, tx_open,
                   metadata_list, last_end, rotation_id>>
    /\ UNCHANGED sumVars
    /\ UNCHANGED libVars

\* an UPDATE or the commit raises a DatabaseError: rollback, then the
\* status report and the next iteration
L_BatchDbError(h) ==
    /\ pc[h] \in {"process", "commit"}
    /\ locals_bound[h]
    /\ rollback(h)
    /\ EndTx(h, "database_error")
    /\ iteration' = [iteration EXCEPT ![h] = @ + 1]
    /\ pc' = [pc EXCEPT ![h] = "loop"]
    /\ UNCHANGED <<should_stop, server_up, complete_calls, successful, failed>>
    /\ UNCHANGED libVars

\* the with block ends: commit, then the status report and the next iteration
L_CommitBatch(h) ==
    /\ pc[h] = "commit"
    /\ commit(h)
    /\ EndTx(h, "commit")
    /\ iteration' = [iteration EXCEPT ![h] = @ + 1]
    /\ pc' = [pc EXCEPT ![h] = "loop"]
    /\ UNCHANGED <<should_stop, server_up, complete_calls, successful, failed>>
    /\ UNCHANGED libVars

\* set_stop_script()
L_StopRequest(h) ==
    /\ pc[h] # "done"
    /\ schedule_stop(h)
    /\ UNCHANGED <<pc, iteration, server_up, complete_calls, lock>>
    /\ UNCHANGED txVars
    /\ UNCHANGED tx_writes
    /\ UNCHANGED storeVars
    /\ UNCHANGED sumVars
    /\ UNCHANGED libVars

\* the ids of the rotations rows as the tables may hold them: both ids are
\* serial keys of their own tables, equal row by row or one apart
RotationIds == {[u \in Units |-> u], [u \in Units |-> u + 1]}

LegacyInit ==
    /\ pc = [h \in Hosts |-> "loop"]
    /\ should_stop = [h \in Hosts |-> FALSE]
    /\ iteration = [h \in Hosts |-> 1]
    /\ server_up = [h \in Hosts |-> FALSE]
    /\ complete_calls = [h \in Hosts |-> 0]
    /\ tx_open = [h \in Hosts |-> FALSE]
    /\ metadata_list = [h \in Hosts |-> <<>>]
    /\ process_results = [h \in Hosts |-> <<>>]
    /\ tx_writes = [h \in Hosts |-> <<>>]
    /\ successful = [h \in Hosts |-> 0]
    /\ failed = [h \in Hosts |-> 0]
    /\ last_end = [h \in Hosts |-> "none"]
    /\ locals_bound = [h \in Hosts |-> FALSE]
    /\ lock = [u \in Units |-> NoHost]
    /\ has_error = [u \in Units |-> FALSE]
    /\ error_count = [u \in Units |-> 0]
    /\ rotation_id \in RotationIds
    /\ total_error = [u \in Units |-> 0]
    /\ running_count = [u \in Units |-> 0]
    /\ sum_total = total_error
    /\ sum_count = running_count
    /\ terminal = {}
    /\ LibIdle

LegacyStep(h) ==
    \/ L_LoopTest(h)
    \/ L_ClaimBatch(h)
    \/ L_ClaimEmpty(h)
    \/ L_ClaimDbError(h)
    \/ L_ProcessBatch(h)
    \/ L_BatchDbError(h)
    \/ L_CommitBatch(h)

LegacyNext == \E h \in Hosts : LegacyStep(h) \/ L_StopRequest(h)

LegacySpec == LegacyInit /\ [][LegacyNext]_vars

\* --------------------------------------------------- run_in_parallel

\* no host runs: the state of the pipeline variables while a library
\* function is followed on its own
PipelineIdle ==
    /\ pc = [h \in Hosts |-> "done"]
    /\ should_stop = [h \in Hosts |-> FALSE]
    /\ iteration = [h \in Hosts |-> 0]
    /\ server_up = [h \in Hosts |-> FALSE]
    /\ complete_calls = [h \in Hosts |-> 0]
    /\ tx_open = [h \in Hosts |-> FALSE]
    /\ metadata_list = [h \in Hosts |-> <<>>]
    /\ process_results = [h \in Hosts |-> <<>>]
    /\ tx_writes = [h \in Hosts |-> <<>>]
    /\ successful = [h \in Hosts |-> 0]
    /\ failed = [h \in Hosts |-> 0]
    /\ last_end = [h \in Hosts |-> "none"]
    /\ locals_bound = [h \in Hosts |-> FALSE]
    /\ lock = [u \in Units |-> NoHost]
    /\ has_error = [u \in Units |-> FALSE]
    /\ error_count = [u \in Units |-> 0]
    /\ rotation_id = [u \in Units |-> u]
    /\ total_error = [u \in Units |-> 0]
    /\ running_count = [u \in Units |-> 0]
    /\ sum_total = total_error
    /\ sum_count = running_count
    /\ terminal = {}

\* the values an item of arg_list may have
Items == 1..MaxItems

\* sequences over S of length at most n
RECURSIVE SeqsUpTo(_, _)
SeqsUpTo(S, n) ==
    IF n = 0 THEN {<<>>}
    ELSE LET shorter == SeqsUpTo(S, n - 1)
         IN shorter \cup {Append(q, x) : q \in {t \in shorter : Len(t) = n - 1}, x \in S}

\* the indices of arg_list, from 0 as in Python
Indices == 0..(Len(arg_list) - 1)

\* parallel_index of the threads run_in_parallel starts
Workers == 0..(thread_count - 1)

\* a slot of result_list: None, or the value the function returned
NoneSlot == [kind |-> "None", value |-> 0]
ValueSlot(v) == [kind |-> "value", value |-> v]

\* the function of the self-test: plus_one
plus_one(original) == original + 1

\* range(parallel_index, len(arg_list), parallel_count): the first index and
\* the step of the loop of _run
range_start(parallel_index) == parallel_index
range_step_one(parallel_count) == 1
range_step(parallel_count) == parallel_count

\* the first slot of rl that still holds None
FirstNone(rl) ==
    CHOOSE j \in DOMAIN rl :
        rl[j].kind = "None" /\ \A m \in DOMAIN rl : m < j => rl[m].kind # "None"

\* result_list[i] = result
store_result_first_free(rl, i, v) == [rl EXCEPT ![FirstNone(rl)] = ValueSlot(v)]
store_result(rl, i, v) == [rl EXCEPT ![i] = ValueSlot(v)]

\* run_in_parallel: result_list = [None] * len(arg_list); threads = []
P_Call ==
    /\ co_pc = "called"
    /\ result_list' = [i \in Indices |-> NoneSlot]
    /\ co_pc' = "spawn"
    /\ UNCHANGED <<arg_list, raising, thread_count, threads, joined, w_pc, w_i,
                   calls, returned>>
    /\ UNCHANGED <<vars, calcVars, mergeVars, augVars, extVars>>

\* run_in_parallel: Thread(target=_run, ...).start() for the next
\* parallel_index; the thread starts its range loop
P_StartThread ==
    /\ co_pc = "spawn"
    /\ threads < thread_count
    /\ w_pc' = [w_pc EXCEPT ![threads] = "running"]
    /\ w_i' = [w_i EXCEPT ![threads] = range_start(threads)]
    /\ threads' = threads + 1
    /\ co_pc' = IF threads + 1 = thread_count THEN "join" ELSE "spawn"
    /\ UNCHANGED <<arg_list, raising, thread_count, result_list, joined, calls,
                   returned>>
    /\ UNCHANGED <<vars, calcVars, mergeVars, augVars, extVars>>

\* _run: one pass of the loop body: the function is called on arg_list[i];
\* its result is stored in slot i unless it raised, which is caught
W_Process(k) ==
    /\ k \in Workers
    /\ w_pc[k] = "running"
    /\ w_i[k] < Len(arg_list)
    /\ LET i == w_i[k]
           item == arg_list[i + 1]
       IN /\ calls' = [calls EXCEPT ![i] = Append(@, k)]
          /\ result_list' = IF item \in raising THEN result_list
                            ELSE store_result(result_list, i, plus_one(item))
          /\ w_i' = [w_i EXCEPT ![k] = i + range_step(thread_count)]
    /\ UNCHANGED <<arg_list, raising, thread_count, threads, joined, co_pc, w_pc,
                   returned>>
    /\ UNCHANGED <<vars, calcVars, mergeVars, augVars, extVars>>

\* _run: the range is exhausted and the thread ends
W_Exit(k) ==
    /\ k \in Workers
    /\ w_pc[k] = "running"
    /\ w_i[k] >= Len(arg_list)
    /\ w_pc' = [w_pc EXCEPT ![k] = "terminated"]
    /\ UNCHANGED <<arg_list, raising, thread_count, result_list, threads, joined,
                   co_pc, w_i, calls, returned>>
    /\ UNCHANGED <<vars, calcVars, mergeVars, augVars, extVars>>

\* thread.join(): it returns once the thread has ended
join_no_wait(k) == TRUE
join(k) == w_pc[k] = "terminated"

\* run_in_parallel: for thread in threads: thread.join()
P_Join ==
    /\ co_pc = "join"
    /\ joined < threads
    /\ join(joined)
    /\ joined' = joined + 1
    /\ UNCHANGED <<arg_list, raising, thread_count, result_list, threads, co_pc,
                   w_pc, w_i, calls, returned>>
    /\ UNCHANGED <<vars, calcVars, mergeVars, augVars, extVars>>

\* run_in_parallel: return result_list
P_Return ==
    /\ co_pc = "join"
    /\ joined = threads
    /\ returned' = result_list
    /\ co_pc' = "returned"
    /\ UNCHANGED <<arg_list, raising, thread_count, result_list, threads, joined,
                   w_pc, w_i, calls>>
    /\ UNCHANGED <<vars, calcVars, mergeVars, augVars, extVars>>

\* a call run_in_parallel(plus_one, arg_list, thread_count)
ParInit ==
    /\ PipelineIdle
    /\ CalcIdle /\ MergeIdle /\ AugIdle /\ ExtIdle
    /\ arg_list \in SeqsUpTo(Items, MaxItems)
    /\ raising \in {{}, {2}}
    /\ thread_count \in 1..MaxWorkers
    /\ result_list = <<>>
    /\ threads = 0
    /\ joined = 0
    /\ co_pc = "called"
    /\ w_pc = [k \in Workers |-> "unstarted"]
    /\ w_i = [k \in Workers |-> 0]
    /\ calls = [i \in Indices |-> <<>>]
    /\ returned = <<>>

ParNext ==
    \/ P_Call
    \/ P_StartThread
    \/ \E k \in 0..(MaxWorkers - 1) : W_Process(k) \/ W_Exit(k)
    \/ P_Join
    \/ P_Return

ParSpec == ParInit /\ [][ParNext]_parVars

\* ---------------------------------------------- RunningErrorCalculator

Abs(x) == IF x < 0 THEN -x ELSE x
Min(x, y) == IF x < y THEN x ELSE y

RECURSIVE Pow2(_)
Pow2(n) == IF n = 0 THEN 1 ELSE 2 * Pow2(n - 1)

\* the spacing of the floats around the whole number x >= 0
RECURSIVE Ulp(_)
Ulp(x) == IF x < Pow2(MantissaBits) THEN 1 ELSE 2 * Ulp(x \div 2)

\* the float nearest to the whole number x >= 0, ties to the even mantissa
fl(x) ==
    LET ulp == Ulp(x)
        q == x \div ulp
        r == x % ulp
    IN IF 2 * r < ulp THEN q * ulp
       ELSE IF 2 * r > ulp THEN (q + 1) * ulp
       ELSE IF q % 2 = 0 THEN q * ulp ELSE (q + 1) * ulp

\* total_error += x on a float total_error
float_add(x, y) == fl(x + y)

\* update: error = abs(expected - actual) % 180; error = min(error, 180 - error)
fold_no_min(expected_rotation, actual_rotation) ==
    Abs(expected_rotation - actual_rotation) % 180
fold(expected_rotation, actual_rotation) ==
    LET error == Abs(expected_rotation - actual_rotation) % 180
    IN Min(error, 180 - error)

\* update: the object after the call
update_resets(self, error) ==
    [total_error |-> error, running_count |-> 1]
update(self, error) ==
    [total_error |-> float_add(self.total_error, error),
     running_count |-> self.running_count + 1]

\* get_average: raise ValueError if self.running_count <= 0
get_average_raises_never(self) == FALSE
get_average_raises(self) == self.running_count <= 0

\* merge: the object self after self.merge(other)
merge_overwrites(self, other) ==
    [total_error |-> other.total_error,
     running_count |-> self.running_count + other.running_count]
merge(self, other) ==
    [total_error |-> float_add(self.total_error, other.total_error),
     running_count |-> self.running_count + other.running_count]

\* angles the caller may pass
Angles == {-90, 0, 89, 271}

Calcs == {1, 2}
CalcOf(n) == IF n = 1 THEN calc ELSE calc2
SetCalc(n, v) ==
    /\ calc' = IF n = 1 THEN v ELSE calc
    /\ calc2' = IF n = 2 THEN v ELSE calc2

\* calculator.update(expected_rotation, actual_rotation)
C_Update(n) ==
    /\ c_ops < MaxCalcOps
    /\ \E e \in Angles : \E a \in Angles :
          LET error == fold(e, a)
              after == update(CalcOf(n), error)
          IN /\ SetCalc(n, after)
             /\ c_last' = [op |-> "update", self |-> n, expected |-> e, actual |-> a,
                           ret |-> error, den |-> 1, raised |-> FALSE,
                           before |-> CalcOf(n), after |-> after]
    /\ c_ops' = c_ops + 1
    /\ UNCHANGED <<vars, parVars, mergeVars, augVars, extVars>>

\* calculator.get_average(): raises, or returns total_error / running_count
\* (ret over den)
C_GetAverage(n) ==
    /\ c_ops < MaxCalcOps
    /\ LET self == CalcOf(n) IN
          c_last' = IF get_average_raises(self)
                    THEN [op |-> "get_average", self |-> n, expected |-> 0, actual |-> 0,
                          ret |-> 0, den |-> 0, raised |-> TRUE,
                          before |-> self, after |-> self]
                    ELSE [op |-> "get_average", self |-> n, expected |-> 0, actual |-> 0,
                          ret |-> self.total_error, den |-> self.running_count,
                          raised |-> FALSE, before |-> self, after |-> self]
    /\ c_ops' = c_ops + 1
    /\ UNCHANGED <<calc, calc2>>
    /\ UNCHANGED <<vars, parVars, mergeVars, augVars, extVars>>

\* calculator.merge(other), other being the other of the two objects
C_Merge(n) ==
    /\ c_ops < MaxCalcOps
    /\ LET after == merge(CalcOf(n), CalcOf(3 - n)) IN
          /\ SetCalc(n, after)
          /\ c_last' = [op |-> "merge", self |-> n, expected |-> 0, actual |-> 0,
                        ret |-> 0, den |-> 1, raised |-> FALSE,
                        before |-> CalcOf(n), after |-> after]
    /\ c_ops' = c_ops + 1
    /\ UNCHANGED <<vars, parVars, mergeVars, augVars, extVars>>

\* two default-constructed objects
CalcInit ==
    /\ PipelineIdle
    /\ ParIdle /\ MergeIdle /\ AugIdle /\ ExtIdle
    /\ CalcIdle

CalcNext == \E n \in Calcs : C_Update(n) \/ C_GetAverage(n) \/ C_Merge(n)

CalcSpec == CalcInit /\ [][CalcNext]_calcVars

\* total_error values a valid record may be constructed with
RecordTotals == {0, 1, 75, Pow2(MantissaBits)}
RecordCounts == {0, 1, 2}
Records == [total_error : RecordTotals, running_count : RecordCounts]

MergeSteps == {"ab", "ba", "bc", "ab_c", "a_bc"}

\* calculator.merge(other) on copies of the three objects: A.merge(B),
\* B.merge(A), B.merge(C), then (A merged with B).merge(C) and
\* A.merge(B merged with C)
M_Merge(step) ==
    /\ step \notin DOMAIN m_res
    /\ step = "ab_c" => "ab" \in DOMAIN m_res
    /\ step = "a_bc" => "bc" \in DOMAIN m_res
    /\ LET v == CASE step = "ab" -> merge(m_a, m_b)
                  [] step = "ba" -> merge(m_b, m_a)
                  [] step = "bc" -> merge(m_b, m_c)
                  [] step = "ab_c" -> merge(m_res["ab"], m_c)
                  [] step = "a_bc" -> merge(m_a, m_res["bc"])
       IN m_res' = [t \in DOMAIN m_res \cup {step} |-> IF t = step THEN v ELSE m_res[t]]
    /\ UNCHANGED <<m_a, m_b, m_c>>
    /\ UNCHANGED <<vars, parVars, calcVars, augVars, extVars>>

\* three valid records
MergeInit ==
    /\ PipelineIdle
    /\ ParIdle /\ CalcIdle /\ AugIdle /\ ExtIdle
    /\ m_a \in Records
    /\ m_b \in Records
    /\ m_c \in Records
    /\ m_res = <<>>

MergeNext == \E step \in MergeSteps : M_Merge(step)

MergeSpec == MergeInit /\ [][MergeNext]_mergeVars

\* ----------------------------------------------------- RandomAugmenter

\* self.augmenters: RotationAugmenter, ResampleAugmenter, BlurAugmenter
augmenters == <<"rotate", "resample", "blur">>

\* np.random.randint(0, 180, count)
RandomAngles == {0, 37, 179}
\* int(np.random.uniform(15, 100))
RandomSampleCounts == {15}
\* np.random.uniform(0, 2), in tenths
RandomIntensities == {5}

RandomParams(augmenter) ==
    CASE augmenter = "rotate" -> RandomAngles
      [] augmenter = "resample" -> RandomSampleCounts
      [] augmenter = "blur" -> RandomIntensities

\* random.sample(self.augmenters, augment_count): augment_count different
\* augmenters in any order
random_sample(augment_count) ==
    {q \in SeqsUpTo(SeqRange(augmenters), Len(augmenters)) :
        /\ Len(q) = augment_count
        /\ \A i \in 1..Len(q) : \A j \in 1..Len(q) : i # j => q[i] # q[j]}

\* assert np.all(fits >= 0) of _augment_resample
assert_fails(augmenter, image) == augmenter = "resample" /\ ~image.nonneg

\* augmenter.random_augment(image)[0]: _augment_rotate (which shifts the
\* rotated image to be non-negative), _augment_resample or _augment_blur
augment(augmenter, image, param) ==
    [result_image |->
        [hist |-> Append(image.hist, [t |-> augmenter, p |-> param]),
         nonneg |-> IF augmenter = "blur" THEN image.nonneg ELSE TRUE],
     angle_delta |-> IF augmenter = "rotate" THEN param ELSE 0,
     metadata |-> <<[t |-> augmenter, p |-> param]>>]

\* AugmentResult.merge
AugmentResult_merge_takes_other(self, other) ==
    [result_image |-> other.result_image,
     angle_delta |-> other.angle_delta,
     metadata |-> self.metadata \o other.metadata]
AugmentResult_merge(self, other) ==
    [result_image |-> other.result_image,
     angle_delta |-> (self.angle_delta + other.angle_delta) % 180,
     metadata |-> self.metadata \o other.metadata]

\* the image the next augmenter is given: augment_result.result_image
next_input_original(augment_result, image) == image
next_input(augment_result, image) == augment_result.result_image

\* range(count)
count_done(results, count) == Len(results) >= count

\* random_augment: augment_count = random.randint(1, len(self.augmenters));
\* selected_augmenters = random.sample(...); augment_result = None
A_Select ==
    /\ a_pc = "loop"
    /\ ~count_done(a_results, a_count)
    /\ \E augment_count \in 1..Len(augmenters) :
          a_selected' \in random_sample(augment_count)
    /\ a_result' = NoAugmentResult
    /\ a_pc' = "apply"
    /\ UNCHANGED <<a_image, a_count, a_results>>
    /\ UNCHANGED <<vars, parVars, calcVars, mergeVars, extVars>>

\* random_augment: one pass of the loop over selected_augmenters
A_Apply ==
    /\ a_pc = "apply"
    /\ a_selected # <<>>
    /\ LET augmenter == Head(a_selected)
           input == IF a_result = NoAugmentResult THEN a_image
                    ELSE next_input(a_result, a_image)
       IN IF assert_fails(augmenter, input)
          THEN /\ a_pc' = "raised"
               /\ UNCHANGED <<a_result, a_selected>>
          ELSE /\ \E param \in RandomParams(augmenter) :
                     a_result' = IF a_result = NoAugmentResult
                                 THEN augment(augmenter, input, param)
                                 ELSE AugmentResult_merge(a_result,
                                                          augment(augmenter, input, param))
               /\ a_selected' = Tail(a_selected)
               /\ UNCHANGED a_pc
    /\ UNCHANGED <<a_image, a_count, a_results>>
    /\ UNCHANGED <<vars, parVars, calcVars, mergeVars, extVars>>

\* random_augment: results.append(augment_result)
A_Append ==
    /\ a_pc = "apply"
    /\ a_selected = <<>>
    /\ a_results' = Append(a_results, a_result)
    /\ a_pc' = "loop"
    /\ UNCHANGED <<a_image, a_count, a_selected, a_result>>
    /\ UNCHANGED <<vars, parVars, calcVars, mergeVars, extVars>>

\* random_augment: return results
A_Return ==
    /\ a_pc = "loop"
    /\ count_done(a_results, a_count)
    /\ a_pc' = "returned"
    /\ UNCHANGED <<a_image, a_count, a_results, a_selected, a_result>>
    /\ UNCHANGED <<vars, parVars, calcVars, mergeVars, extVars>>

\* a call random_augment(image, count) on a non-negative image
AugInit ==
    /\ PipelineIdle
    /\ ParIdle /\ CalcIdle /\ MergeIdle /\ ExtIdle
    /\ a_image = OriginalImage
    /\ a_count \in 0..MaxCount
    /\ a_results = <<>>
    /\ a_selected = <<>>
    /\ a_result = NoAugmentResult
    /\ a_pc = "loop"

AugNext == A_Select \/ A_Apply \/ A_Append \/ A_Return

AugSpec == AugInit /\ [][AugNext]_augVars

\* ------------------------------------------- mask, denoiser, radon transform
\* (commons/models/mask_generators.py, denoisers.py, radon_transformers.py)

Cells(shape) == (0..(shape[1] - 1)) \X (0..(shape[2] - 1))

\* np.sum of the values a takes on the cells in S
RECURSIVE np_sum(_, _)
np_sum(a, S) ==
    IF S = {} THEN 0
    ELSE LET p == CHOOSE q \in S : TRUE
         IN  a[p] + np_sum(a, S \ {p})

\* CircleMaskGenerator.generate: ys and xs are the row and column offsets
\* from center, radius is half of shape[0]
generate(shape) ==
    LET center == <<shape[1] \div 2, shape[2] \div 2>>
        radius == shape[1] \div 2
        ys(row) == row - center[1]
        xs(col) == col - center[2]
    IN  [p \in Cells(shape) |->
            xs(p[2]) * xs(p[2]) + ys(p[1]) * ys(p[1]) <= radius * radius]

\* a boolean array as a factor of a product: True is 1, False is 0
AsNumber(b) == IF b THEN 1 ELSE 0

\* CircleMaskGenerator.apply_mask: image * mask
apply_mask(image) ==
    LET m == generate(image.shape)
    IN  [shape |-> image.shape,
         data |-> [p \in Cells(image.shape) |-> image.data[p] * AsNumber(m[p])]]

\* np.mean(a): the sum of all elements over the number of all elements,
\* kept as a fraction
np_mean(a, shape) ==
    [num |-> np_sum(a, Cells(shape)), den |-> shape[1] * shape[2]]

\* LowPassDenosier.denoise; the result pixels are fractions with the
\* denominator of ambient_noise, data holds their numerators
denoise(image, m) ==
    LET outside == [p \in Cells(image.shape) |-> image.data[p] * AsNumber(~m[p])]
        ambient_noise == np_mean(outside, image.shape)
        difference(p) == image.data[p] * ambient_noise.den - ambient_noise.num
    IN  [shape |-> image.shape,
         ambient_noise |-> ambient_noise,
         den |-> ambient_noise.den,
         data |-> [p \in Cells(image.shape) |->
                      IF difference(p) < 0 THEN 0 ELSE difference(p)]]

\* np.linspace(0, np.pi, fineness) in degrees; the model takes fineness 3,
\* where every theta is a multiple of a quarter turn and the resampled
\* coordinates are whole pixels (the reference fineness is 181)
thetas == <<0, 90, 180>>
fineness == Len(thetas)
cos(theta) == CASE theta = 0 -> 1 [] theta = 90 -> 0 [] theta = 180 -> -1
sin(theta) == CASE theta = 0 -> 0 [] theta = 90 -> 1 [] theta = 180 -> 0

\* the -20 of the translation column, half of the side of the grid
Half == Side \div 2

\* scipy.ndimage.map_coordinates at whole coordinates: the pixel, or cval 0
\* outside of the image
map_coordinates(image, x, y) ==
    IF x \in 0..(image.shape[1] - 1) /\ y \in 0..(image.shape[2] - 1)
    THEN image.data[<<x, y>>]
    ELSE 0

\* sums[j] for one theta: x_coords is j and y_coords is i on the grid,
\* transformed by matrix and summed over axis 0
projection(image, theta, j) ==
    LET tx(x, y) == cos(theta) * x + sin(theta) * y
                        - Half * (cos(theta) + sin(theta) - 1)
        ty(x, y) == (0 - sin(theta)) * x + cos(theta) * y
                        - Half * (cos(theta) - sin(theta) - 1)
        interpolated == [i \in 0..(Side - 1) |->
                            map_coordinates(image, tx(j, i), ty(j, i))]
    IN  np_sum(interpolated, 0..(Side - 1))

not_square_never(raw_image_shape) == FALSE

\* raw_image_shape[0] != raw_image_shape[1]
not_square(raw_image_shape) == raw_image_shape[1] # raw_image_shape[2]

\* RadonTransformer.transform
transform(image) ==
    IF not_square(image.shape)
    THEN [raised |-> TRUE, raw_image |-> NoImage, sinogram |-> NoImage]
    ELSE LET masked == apply_mask(image)
             shape == <<Side, fineness>>
         IN  [raised |-> FALSE,
              raw_image |-> masked,
              sinogram |-> [shape |-> shape,
                            data |-> [c \in Cells(shape) |->
                                projection(masked, thetas[c[2] + 1], c[1])]]]

\* numpy's flat (row-major) index of a cell, and np.unravel_index
FlatSize(a) == a.shape[1] * a.shape[2]
unravel_index(index, shape) == <<index \div shape[2], index % shape[2]>>
Flat(a, index) == a.data[unravel_index(index, a.shape)]

argmax_last(a) ==
    CHOOSE f \in 0..(FlatSize(a) - 1) :
        /\ \A g \in 0..(FlatSize(a) - 1) : Flat(a, g) <= Flat(a, f)
        /\ \A g \in (f + 1)..(FlatSize(a) - 1) : Flat(a, g) < Flat(a, f)

\* ndarray.argmax(): the first flat index that holds the maximum
argmax(a) ==
    CHOOSE f \in 0..(FlatSize(a) - 1) :
        /\ \A g \in 0..(FlatSize(a) - 1) : Flat(a, g) <= Flat(a, f)
        /\ \A g \in 0..(f - 1) : Flat(a, g) < Flat(a, f)

\* RadonTransformResult.get_rotation
get_rotation(sinogram) == unravel_index(argmax(sinogram), sinogram.shape)[2]

\* the images followed: every shape up to Side x Side, at most two pixels
\* that are not zero
\* BandFitsBuilder._preprocess: the data is shifted by its minimum when the
\* minimum is negative
preprocess(fits_data) ==
    LET shift == CHOOSE v \in {fits_data.data[p] : p \in Cells(fits_data.shape)} :
                     \A p \in Cells(fits_data.shape) : v <= fits_data.data[p]
    IN  IF shift < 0
        THEN [shape |-> fits_data.shape,
              data |-> [p \in Cells(fits_data.shape) |-> fits_data.data[p] - shift]]
        ELSE fits_data

\* BandFitsBuilder.build with a mask generator and a denoiser: _fits_data
\* is preprocessed, then replaced by apply_mask(_fits_data), and denoise is
\* called with that masked _fits_data and the mask
build(fits_data) ==
    LET preprocessed == preprocess(fits_data)
        m == generate(preprocessed.shape)
        masked == apply_mask(preprocessed)
    IN  denoise(masked, m)

PixelValues == {1, 2}
Shapes == (1..Side) \X (1..Side)
LitSets(shape) ==
    {{}} \cup {{p, q} : <<p, q>> \in Cells(shape) \X Cells(shape)}
ImagesOf(shape) ==
    UNION {{[shape |-> shape,
             data |-> [p \in Cells(shape) |-> IF p \in lit THEN v[p] ELSE 0]]
            : v \in [lit -> PixelValues]} : lit \in LitSets(shape)}
Images == UNION {ImagesOf(shape) : shape \in Shapes}

G_Generate ==
    /\ img_pc = "start"
    /\ mask' = generate(raw_image.shape)
    /\ img_pc' = "generated"
    /\ UNCHANGED <<raw_image, masked_image, denoised, transform_result, rotations, built>>
    /\ UNCHANGED <<vars, coreLibVars, radVars, unitVars, fetchVars>>

G_ApplyMask ==
    /\ img_pc = "generated"
    /\ masked_image' = apply_mask(raw_image)
    /\ img_pc' = "masked"
    /\ UNCHANGED <<raw_image, mask, denoised, transform_result, rotations, built>>
    /\ UNCHANGED <<vars, coreLibVars, radVars, unitVars, fetchVars>>

D_Denoise ==
    /\ img_pc = "masked"
    /\ denoised' = denoise(raw_image, mask)
    /\ img_pc' = "denoised"
    /\ UNCHANGED <<raw_image, mask, masked_image, transform_result, rotations, built>>
    /\ UNCHANGED <<vars, coreLibVars, radVars, unitVars, fetchVars>>

T_Transform ==
    /\ img_pc = "denoised"
    /\ transform_result' = transform(raw_image)
    /\ img_pc' = IF transform_result'.raised THEN "raised" ELSE "transformed"
    /\ UNCHANGED <<raw_image, mask, masked_image, denoised, rotations, built>>
    /\ UNCHANGED <<vars, coreLibVars, radVars, unitVars, fetchVars>>

R_GetRotation ==
    /\ img_pc = "transformed"
    /\ Len(rotations) < 2
    /\ rotations' = Append(rotations, get_rotation(transform_result.sinogram))
    /\ UNCHANGED <<raw_image, mask, masked_image, denoised, transform_result, img_pc, built>>
    /\ UNCHANGED <<vars, coreLibVars, radVars, unitVars, fetchVars>>

B_Build ==
    /\ img_pc = "start"
    /\ built' = build(raw_image)
    /\ img_pc' = "built"
    /\ UNCHANGED <<raw_image, mask, masked_image, denoised, transform_result, rotations>>
    /\ UNCHANGED <<vars, coreLibVars, radVars, unitVars, fetchVars>>

ImgInit ==
    /\ PipelineIdle
    /\ CoreLibIdle
    /\ RadIdle
    /\ UnitIdle
    /\ FetchIdle
    /\ raw_image \in Images
    /\ mask = <<>>
    /\ masked_image = NoImage
    /\ denoised = NoImage
    /\ transform_result = NoTransformResult
    /\ rotations = <<>>
    /\ img_pc = "start"
    /\ built = NoImage

ImgNext ==
    \/ G_Generate
    \/ G_ApplyMask
    \/ D_Denoise
    \/ T_Transform
    \/ R_GetRotation
    \/ B_Build

ImgSpec == ImgInit /\ [][ImgNext]_imgVars

\* --------------------------------------------- Pipeline and RadonScript
\* (commons/orchestration/pipeline.py, radon/src/script.py)

Galaxies == 1..NumGalaxies

\* the identities a Pipeline may be constructed with
ContainerIds == {"radon-1", "radon-2"}
ContainerPorts == {5578}

\* the values of body.get("action") that are followed; "none" is a body
\* without the key
ControlActions == {"stop", "start", "none"}

\* SELECT ... WHERE status='Fetched' ORDER BY id LIMIT SQL_BATCH_SIZE
RECURSIVE FetchedRows(_, _, _)
FetchedRows(status, id, limit) ==
    IF id > NumGalaxies \/ limit = 0 THEN <<>>
    ELSE IF status[id] = "Fetched"
         THEN <<id>> \o FetchedRows(status, id + 1, limit - 1)
         ELSE FetchedRows(status, id + 1, limit)

\* RadonScript.get_status
get_status ==
    [iteration |-> r_iteration,
     iteration_progress |-> iteration_progress,
     iteration_max_progress |-> SQL_BATCH_SIZE]

\* self.iteration += 1
next_iteration_twice(i) == i + 2

next_iteration(i) == i + 1

\* action != "stop"
invalid_action_never(action) == FALSE

invalid_action(action) == action # "stop"

\* the statements of Pipeline.shutdown, in order
shutdown_statements_server_first == <<"server.shutdown", "shutdown_callback.execute">>

shutdown_statements == <<"shutdown_callback.execute", "server.shutdown">>

\* while not self._should_stop
Rad_LoopTest ==
    /\ r_pc = "loop"
    /\ r_pc' = IF r_should_stop THEN "shutdown" ELSE "run_batch"
    /\ UNCHANGED <<container_id, container_port, server, executed, shutdown_step,
                   r_should_stop, r_iteration, iteration_progress, metadata,
                   result_rows, galaxy_status, requests, response>>
    /\ UNCHANGED <<vars, coreLibVars, imgVars, unitVars, fetchVars>>

\* run_batch up to the loop over metadata; an empty result schedules the
\* stop and returns, which commits
Rad_ClaimBatch ==
    /\ r_pc = "run_batch"
    /\ r_iteration < MaxIter
    /\ iteration_progress' = 0
    /\ metadata' = FetchedRows(galaxy_status, 1, SQL_BATCH_SIZE)
    /\ result_rows' = <<>>
    /\ IF metadata' = <<>>
       THEN r_should_stop' = TRUE /\ r_pc' = "after_batch"
       ELSE r_should_stop' = r_should_stop /\ r_pc' = "process"
    /\ UNCHANGED <<container_id, container_port, server, executed, shutdown_step,
                   r_iteration, galaxy_status, requests, response>>
    /\ UNCHANGED <<vars, coreLibVars, imgVars, unitVars, fetchVars>>

\* the claim query raises a DatabaseError: cursor() rolls back and swallows
\* it, and line 71 reads result_rows, which was never bound; the
\* UnboundLocalError ends the script thread
Rad_ClaimDbError ==
    /\ r_pc = "run_batch"
    /\ r_iteration < MaxIter
    /\ iteration_progress' = 0
    /\ r_pc' = "dead"
    /\ UNCHANGED <<container_id, container_port, server, executed, shutdown_step,
                   r_should_stop, r_iteration, metadata, result_rows,
                   galaxy_status, requests, response>>
    /\ UNCHANGED <<vars, coreLibVars, imgVars, unitVars, fetchVars>>

\* one turn of the loop over metadata: process_galaxy returns a result or
\* raises, which gives GalaxyRadonTransformResult.error
Rad_ProcessGalaxy ==
    /\ r_pc = "process"
    /\ Len(result_rows) < Len(metadata)
    /\ \E is_error \in BOOLEAN :
        result_rows' = Append(result_rows,
            [source_id |-> metadata[Len(result_rows) + 1], is_error |-> is_error])
    /\ iteration_progress' = iteration_progress + 1
    /\ UNCHANGED <<container_id, container_port, server, executed, shutdown_step,
                   r_pc, r_should_stop, r_iteration, metadata, galaxy_status,
                   requests, response>>
    /\ UNCHANGED <<vars, coreLibVars, imgVars, unitVars, fetchVars>>

\* update_sql_database for every result, then the commit of cursor()
Rad_UpdateBatch ==
    /\ r_pc = "process"
    /\ Len(result_rows) = Len(metadata)
    /\ galaxy_status' =
        [g \in Galaxies |->
            IF \E k \in 1..Len(result_rows) : result_rows[k].source_id = g
            THEN "Processed" ELSE galaxy_status[g]]
    /\ r_pc' = "after_batch"
    /\ UNCHANGED <<container_id, container_port, server, executed, shutdown_step,
                   r_should_stop, r_iteration, iteration_progress, metadata,
                   result_rows, requests, response>>
    /\ UNCHANGED <<vars, coreLibVars, imgVars, unitVars, fetchVars>>

\* an update raises a DatabaseError: cursor() rolls back and swallows it,
\* result_rows is bound and run_batch returns
Rad_UpdateDbError ==
    /\ r_pc = "process"
    /\ Len(result_rows) = Len(metadata)
    /\ r_pc' = "after_batch"
    /\ UNCHANGED <<container_id, container_port, server, executed, shutdown_step,
                   r_should_stop, r_iteration, iteration_progress, metadata,
                   result_rows, galaxy_status, requests, response>>
    /\ UNCHANGED <<vars, coreLibVars, imgVars, unitVars, fetchVars>>

\* update_batch_status (nothing), self.iteration += 1
Rad_AfterBatch ==
    /\ r_pc = "after_batch"
    /\ r_iteration' = next_iteration(r_iteration)
    /\ r_pc' = "loop"
    /\ UNCHANGED <<container_id, container_port, server, executed, shutdown_step,
                   r_should_stop, iteration_progress, metadata, result_rows,
                   galaxy_status, requests, response>>
    /\ UNCHANGED <<vars, coreLibVars, imgVars, unitVars, fetchVars>>

\* _on_complete calls Pipeline.shutdown, which calls
\* shutdown_callback.execute(self.container_id, self.container_port)
Rad_ExecuteCallback ==
    /\ r_pc = "shutdown"
    /\ shutdown_step <= Len(shutdown_statements)
    /\ shutdown_statements[shutdown_step] = "shutdown_callback.execute"
    /\ executed' = Append(executed,
            [container_id |-> container_id, container_port |-> container_port,
             returned |-> FALSE, delivered |-> FALSE])
    /\ r_pc' = "in_callback"
    /\ UNCHANGED <<container_id, container_port, server, shutdown_step,
                   r_should_stop, r_iteration, iteration_progress, metadata,
                   result_rows, galaxy_status, requests, response>>
    /\ UNCHANGED <<vars, coreLibVars, imgVars, unitVars, fetchVars>>

\* execute returns: BackendPipelineShutdownCallback has sent the DELETE, or
\* caught the exception of a failed request
Rad_CallbackReturns ==
    /\ r_pc = "in_callback"
    /\ \E delivered \in BOOLEAN :
        executed' = [executed EXCEPT ![Len(executed)] =
                        [@ EXCEPT !.returned = TRUE, !.delivered = delivered]]
    /\ shutdown_step' = shutdown_step + 1
    /\ r_pc' = "shutdown"
    /\ UNCHANGED <<container_id, container_port, server, r_should_stop,
                   r_iteration, iteration_progress, metadata, result_rows,
                   galaxy_status, requests, response>>
    /\ UNCHANGED <<vars, coreLibVars, imgVars, unitVars, fetchVars>>

\* self.server.shutdown()
Rad_ServerShutdown ==
    /\ r_pc = "shutdown"
    /\ shutdown_step <= Len(shutdown_statements)
    /\ shutdown_statements[shutdown_step] = "server.shutdown"
    /\ server' = "shutdown"
    /\ shutdown_step' = shutdown_step + 1
    /\ UNCHANGED <<container_id, container_port, executed, r_pc, r_should_stop,
                   r_iteration, iteration_progress, metadata, result_rows,
                   galaxy_status, requests, response>>
    /\ UNCHANGED <<vars, coreLibVars, imgVars, unitVars, fetchVars>>

\* POST /control
control_pipeline ==
    /\ server = "serving"
    /\ requests < MaxRequests
    /\ requests' = requests + 1
    /\ \E action \in ControlActions :
        IF invalid_action(action)
        THEN /\ response' = [route |-> "/control", action |-> action, code |-> 400,
                             body |-> [error |-> "Invalid action"]]
             /\ r_should_stop' = r_should_stop
        ELSE /\ r_should_stop' = TRUE
             /\ response' = [route |-> "/control", action |-> action, code |-> 200,
                             body |-> [message |-> "Successfully set stop-script flag"]]
    /\ UNCHANGED <<container_id, container_port, server, executed, shutdown_step,
                   r_pc, r_iteration, iteration_progress, metadata, result_rows,
                   galaxy_status>>
    /\ UNCHANGED <<vars, coreLibVars, imgVars, unitVars, fetchVars>>

\* GET /status
Rad_GetStatus ==
    /\ server = "serving"
    /\ requests < MaxRequests
    /\ requests' = requests + 1
    /\ response' = [route |-> "/status", action |-> "none", code |-> 200,
                    body |-> [message |-> "OK", status |-> get_status]]
    /\ UNCHANGED <<container_id, container_port, server, executed, shutdown_step,
                   r_pc, r_should_stop, r_iteration, iteration_progress, metadata,
                   result_rows, galaxy_status>>
    /\ UNCHANGED <<vars, coreLibVars, imgVars, unitVars, fetchVars>>

\* Pipeline.__init__ and AbstractScript.__init__, RadonScript.__init__
RadInit ==
    /\ PipelineIdle
    /\ CoreLibIdle
    /\ ImgIdle
    /\ UnitIdle
    /\ FetchIdle
    /\ container_id \in ContainerIds
    /\ container_port \in ContainerPorts
    /\ server = "serving"
    /\ executed = <<>>
    /\ shutdown_step = 1
    /\ r_pc = "loop"
    /\ r_should_stop = FALSE
    /\ r_iteration = 0
    /\ iteration_progress = 0
    /\ metadata = <<>>
    /\ result_rows = <<>>
    /\ galaxy_status \in [Galaxies -> {"Fetched", "Processed"}]
    /\ requests = 0
    /\ response = NoResponse

RadNext ==
    \/ Rad_LoopTest
    \/ Rad_ClaimBatch
    \/ Rad_ClaimDbError
    \/ Rad_ProcessGalaxy
    \/ Rad_UpdateBatch
    \/ Rad_UpdateDbError
    \/ Rad_AfterBatch
    \/ Rad_ExecuteCallback
    \/ Rad_CallbackReturns
    \/ Rad_ServerShutdown
    \/ control_pipeline
    \/ Rad_GetStatus

RadSpec == RadInit /\ [][RadNext]_radVars

\* ------------------------------------ one band from claim to commit
\* (commons/models/fits_interfaces.py, augment/src/script.py,
\*  augmentations/src/script.py)

\* the pixels followed: 0.0, a positive and a negative number, NaN and inf
PixelKinds == {"zero", "positive", "negative", "nan", "inf"}
BandData == [1..2 -> PixelKinds]

\* ndarray.any(): some element is not zero (NaN and inf are not zero)
np_any(data) == \E k \in DOMAIN data : data[k] # "zero"

\* np.any(np.isnan(data))
any_isnan(data) == \E k \in DOMAIN data : data[k] = "nan"

\* GalaxyFitsData._validate_fits, and the same test in load_fits
validate_fits(data) == ~(~np_any(data) \/ any_isnan(data))

\* BandFitsBuilder.build with CircleMaskGenerator and LowPassDenosier: a
\* pixel that is inf gives NaN in image * mask or in image * ~mask, the mean
\* and with it every pixel of denoised is NaN, and the assert of denoise
\* fails
build_raises(data) == \E k \in DOMAIN data : data[k] \in {"nan", "inf"}

\* AugmentScript.parallel_process; later_raises: transform, random_augment
\* or update raises
augment_parallel_process(data, later_raises) ==
    IF ~validate_fits(data)
    THEN [calls |-> <<"get_band_data">>,
          result |-> [running_count |-> 0, is_error |-> TRUE]]
    ELSE IF build_raises(data)
    THEN [calls |-> <<"get_band_data", "build">>,
          result |-> [running_count |-> 0, is_error |-> TRUE]]
    ELSE IF later_raises
    THEN [calls |-> <<"get_band_data", "build", "transform">>,
          result |-> [running_count |-> 0, is_error |-> TRUE]]
    ELSE [calls |-> <<"get_band_data", "build", "transform", "random_augment",
                      "update">>,
          result |-> [running_count |-> AUGMENTATION_COUNT, is_error |-> FALSE]]

\* parallel_process of run_script
legacy_unit_parallel_process(data, later_raises) ==
    IF ~validate_fits(data)
    THEN [calls |-> <<"load_fits">>,
          result |-> [running_count |-> 0, is_error |-> TRUE]]
    ELSE IF later_raises
    THEN [calls |-> <<"load_fits", "estimate_rotation">>,
          result |-> [running_count |-> 0, is_error |-> TRUE]]
    ELSE [calls |-> <<"load_fits", "estimate_rotation", "generate_augmentations",
                      "update">>,
          result |-> [running_count |-> AUGMENTATION_COUNT, is_error |-> FALSE]]

\* the id of the row of rotations that insert_result updates: the row of
\* band_uid in AugmentScript, the row with id = metadata[0] in run_script
result_key(script, row) == IF script = "augment" THEN row[2] ELSE row[1]

\* the id of the row of bands that insert_error updates: the row of
\* band_uid in AugmentScript, the row with id = metadata[1] in run_script
error_key(script, row) == IF script = "augment" THEN row[1] ELSE row[2]

\* the claim query returns the band while its row of bands is not marked
\* failed and its row of rotations is below MAX_RUNNING_ERROR_COUNT
U_Claim ==
    /\ u_pc \in {"start", "committed"}
    /\ u_claims < MaxClaims
    /\ u_metadata[1] \notin u_failed
    /\ u_metadata[2] \notin u_updated
    /\ u_claims' = u_claims + 1
    /\ u_calls' = <<>>
    /\ u_result' = NoUnitResult
    /\ u_pc' = "claimed"
    /\ UNCHANGED <<u_script, u_metadata, u_data, u_failed, u_updated>>
    /\ UNCHANGED <<vars, coreLibVars, imgVars, radVars, fetchVars>>

U_ParallelProcess ==
    /\ u_pc = "claimed"
    /\ \E later_raises \in BOOLEAN :
        LET r == IF u_script = "augment"
                 THEN augment_parallel_process(u_data, later_raises)
                 ELSE legacy_unit_parallel_process(u_data, later_raises)
        IN  /\ u_calls' = r.calls
            /\ u_result' = r.result
    /\ u_pc' = "processed"
    /\ UNCHANGED <<u_script, u_metadata, u_data, u_failed, u_updated, u_claims>>
    /\ UNCHANGED <<vars, coreLibVars, imgVars, radVars, fetchVars>>

\* insert_result or insert_error, and the commit
U_Commit ==
    /\ u_pc = "processed"
    /\ IF ~u_result.is_error
       THEN /\ u_updated' = u_updated \cup {result_key(u_script, u_metadata)}
            /\ u_failed' = u_failed
       ELSE /\ u_failed' = u_failed \cup {error_key(u_script, u_metadata)}
            /\ u_updated' = u_updated
    /\ u_pc' = "committed"
    /\ UNCHANGED <<u_script, u_metadata, u_data, u_calls, u_result, u_claims>>
    /\ UNCHANGED <<vars, coreLibVars, imgVars, radVars, fetchVars>>

\* rows as the claim queries return them: (uid, ...) of augment_view, and
\* (b.id, r.id, ...) of run_script, where the ids of the two tables are
\* independent serial numbers
UnitInit ==
    /\ PipelineIdle
    /\ CoreLibIdle
    /\ ImgIdle
    /\ RadIdle
    /\ FetchIdle
    /\ u_script \in {"augment", "legacy"}
    /\ u_metadata \in {<<1, 1>>, <<1, 2>>}
    /\ u_script = "augment" => u_metadata = <<1, 1>>
    /\ u_data \in BandData
    /\ u_pc = "start"
    /\ u_calls = <<>>
    /\ u_result = NoUnitResult
    /\ u_failed = {}
    /\ u_updated = {}
    /\ u_claims = 0

UnitNext ==
    \/ U_Claim
    \/ U_ParallelProcess
    \/ U_Commit

UnitSpec == UnitInit /\ [][UnitNext]_unitVars

\* ---------------------------- run_script without store errors, scheduled fairly

\* the iterations a host is followed for: one per unit of the backlog and
\* one for the empty claim is what draining the backlog takes at most
DrainIter == NumUnits + 1

\* while not is_stop_script(), as L_LoopTest, followed up to DrainIter
LD_LoopTest(h) ==
    /\ pc[h] = "loop"
    /\ IF should_stop[h]
       THEN /\ pc' = [pc EXCEPT ![h] = "done"]
            /\ UNCHANGED tx_open
       ELSE /\ iteration[h] <= DrainIter
            /\ pc' = [pc EXCEPT ![h] = "claim"]
            /\ tx_open' = [tx_open EXCEPT ![h] = TRUE]
    /\ UNCHANGED <<should_stop, iteration, server_up, complete_calls,
                   metadata_list, process_results, tx_writes, successful,
                   failed, last_end, locals_bound, lock>>
    /\ UNCHANGED storeVars
    /\ UNCHANGED sumVars
    /\ UNCHANGED libVars

\* the steps of a host when the store raises no error and nobody requests
\* a stop
LegacyDrainStep(h) ==
    \/ LD_LoopTest(h)
    \/ L_ClaimBatch(h)
    \/ L_ClaimEmpty(h)
    \/ L_ProcessBatch(h)
    \/ L_CommitBatch(h)

LegacyDrainNext == \E h \in Hosts : LegacyDrainStep(h)

\* every host is a thread of its own that keeps running: weak fairness of
\* each host's steps
LegacyDrainSpec ==
    /\ LegacyInit
    /\ [][LegacyDrainNext]_vars
    /\ \A h \in Hosts : WF_vars(LegacyDrainStep(h))

\* ------------------------------------------------------ FetchScript hosts

\* the ids of galaxies in the order of ORDER BY id
GalaxyIds == [i \in 1..NumGalaxies |-> i]

\* WHERE gal_prob=1 AND (status='Pending' OR (status='Failed' AND
\* failed_attempts < MAX_FAILS)); every row of the model has gal_prob 1
Fetchable(g) ==
    \/ f_status[g] = "Pending"
    \/ f_status[g] = "Failed" /\ f_failed_attempts[g] < MAX_FAILS

\* SELECT source_id, ..., failed_attempts ... ORDER BY id LIMIT SQL_BATCH_SIZE
\* FOR UPDATE SKIP LOCKED; cursor.fetchall()
select_for_update(h) ==
    LET free == SelectSeq(GalaxyIds,
                          LAMBDA g : Fetchable(g) /\ f_lock[g] \in {NoHost, h})
        n == IF Len(free) < SQL_BATCH_SIZE THEN Len(free) ELSE SQL_BATCH_SIZE
    IN  [i \in 1..n |-> [source_id |-> free[i],
                         failed_attempts |-> f_failed_attempts[free[i]]]]

\* FetchScript.parallel_fetch: (source_id, False, failed_attempts + 1) when
\* the download or the save raised, (source_id, True, failed_attempts) else
parallel_fetch(row, ok) ==
    [source_id |-> row.source_id,
     success |-> ok,
     failed_attempts |-> IF ok THEN row.failed_attempts ELSE row.failed_attempts + 1]

\* run_batch: the (status, failed_attempts, source_id) tuples
sql_friendly_results(frs) ==
    [i \in 1..Len(frs) |->
        [status |-> IF frs[i].success THEN "Fetched" ELSE "Failed",
         failed_attempts |-> frs[i].failed_attempts,
         source_id |-> frs[i].source_id]]

\* the rows a sequence of result tuples names
SourceIds(rows) == {rows[i].source_id : i \in 1..Len(rows)}

\* cursor(): commit or rollback ends the transaction and releases its locks
release_locks(h) == [g \in Galaxies |-> IF f_lock[g] = h THEN NoHost ELSE f_lock[g]]

\* _start: while not self.should_stop: self.run_batch() ...; after the loop
\* _on_complete
F_LoopTest(h) ==
    /\ f_pc[h] = "loop"
    /\ IF f_should_stop[h]
       THEN /\ f_pc' = [f_pc EXCEPT ![h] = "done"]
            /\ UNCHANGED f_calls
       ELSE /\ f_iteration[h] < MaxIter
            /\ f_pc' = [f_pc EXCEPT ![h] = "select"]
            /\ f_calls' = [f_calls EXCEPT ![h] = Append(@, "run_batch")]
    /\ UNCHANGED <<f_status, f_failed_attempts, f_lock, f_should_stop,
                   f_iteration, f_results, fetch_results, status_cache>>
    /\ UNCHANGED <<vars, coreLibVars, imgVars, radVars, unitVars, fThreadVars>>

\* run_batch: the SELECT of the first with block returns and locks its rows
F_Select(h) ==
    /\ f_pc[h] = "select"
    /\ f_results' = [f_results EXCEPT ![h] = select_for_update(h)]
    /\ f_lock' = [g \in Galaxies |->
                     IF g \in SourceIds(f_results'[h]) THEN h ELSE f_lock[g]]
    /\ f_pc' = [f_pc EXCEPT ![h] = "selected"]
    /\ UNCHANGED <<f_status, f_failed_attempts, f_should_stop, f_iteration,
                   fetch_results, status_cache, f_calls>>
    /\ UNCHANGED <<vars, coreLibVars, imgVars, radVars, unitVars, fThreadVars>>

\* run_batch: the SELECT raises a DatabaseError; cursor() rolls back and
\* swallows it, and "if not results" reads a local that was never
\* assigned: the UnboundLocalError leaves run_batch and _start
F_SelectDbError(h) ==
    /\ f_pc[h] = "select"
    /\ f_lock' = release_locks(h)
    /\ f_pc' = [f_pc EXCEPT ![h] = "dead"]
    /\ UNCHANGED <<f_status, f_failed_attempts, f_should_stop, f_iteration,
                   f_results, fetch_results, status_cache, f_calls>>
    /\ UNCHANGED <<vars, coreLibVars, imgVars, radVars, unitVars, fThreadVars>>

\* run_batch: the first with block ends, cursor() commits and the row
\* locks are gone; no rows: schedule_stop() and return
F_SelectCommit(h) ==
    /\ f_pc[h] = "selected"
    /\ f_lock' = release_locks(h)
    /\ IF f_results[h] = <<>>
       THEN /\ f_should_stop' = [f_should_stop EXCEPT ![h] = TRUE]
            /\ f_pc' = [f_pc EXCEPT ![h] = "status"]
       ELSE /\ f_pc' = [f_pc EXCEPT ![h] = "fetch"]
            /\ UNCHANGED f_should_stop
    /\ UNCHANGED <<f_status, f_failed_attempts, f_iteration, f_results,
                   fetch_results, status_cache, f_calls>>
    /\ UNCHANGED <<vars, coreLibVars, imgVars, radVars, unitVars, fThreadVars>>

\* run_batch: run_in_parallel(self.parallel_fetch, results, ...)
F_Fetch(h) ==
    /\ f_pc[h] = "fetch"
    /\ \E oks \in [1..Len(f_results[h]) -> BOOLEAN] :
          fetch_results' = [fetch_results EXCEPT ![h] =
              [i \in 1..Len(f_results[h]) |-> parallel_fetch(f_results[h][i], oks[i])]]
    /\ f_pc' = [f_pc EXCEPT ![h] = "update"]
    /\ UNCHANGED <<f_status, f_failed_attempts, f_lock, f_should_stop,
                   f_iteration, f_results, status_cache, f_calls>>
    /\ UNCHANGED <<vars, coreLibVars, imgVars, radVars, unitVars, fThreadVars>>

\* run_batch: the second with block (executemany UPDATE galaxies ..., then
\* the commit of cursor()), the status cache, and the return.  An UPDATE
\* waits for a row that another transaction has locked.
F_Update(h) ==
    /\ f_pc[h] = "update"
    /\ \A g \in SourceIds(fetch_results[h]) : f_lock[g] \in {NoHost, h}
    /\ LET rows == sql_friendly_results(fetch_results[h])
           last(g) == CHOOSE i \in 1..Len(rows) :
                          /\ rows[i].source_id = g
                          /\ \A j \in 1..Len(rows) : rows[j].source_id = g => j <= i
       IN  /\ f_status' = [g \in Galaxies |->
                              IF g \in SourceIds(rows) THEN rows[last(g)].status
                              ELSE f_status[g]]
           /\ f_failed_attempts' = [g \in Galaxies |->
                              IF g \in SourceIds(rows) THEN rows[last(g)].failed_attempts
                              ELSE f_failed_attempts[g]]
           /\ status_cache' = [status_cache EXCEPT ![h] = rows]
    /\ f_results' = [f_results EXCEPT ![h] = <<>>]
    /\ fetch_results' = [fetch_results EXCEPT ![h] = <<>>]
    /\ f_pc' = [f_pc EXCEPT ![h] = "status"]
    /\ UNCHANGED <<f_lock, f_should_stop, f_iteration, f_calls>>
    /\ UNCHANGED <<vars, coreLibVars, imgVars, radVars, unitVars, fThreadVars>>

\* run_batch: the UPDATE or its commit raises a DatabaseError; cursor()
\* rolls back and swallows it, and run_batch goes on to the status cache
F_UpdateDbError(h) ==
    /\ f_pc[h] = "update"
    /\ status_cache' = [status_cache EXCEPT ![h] = sql_friendly_results(fetch_results[h])]
    /\ f_results' = [f_results EXCEPT ![h] = <<>>]
    /\ fetch_results' = [fetch_results EXCEPT ![h] = <<>>]
    /\ f_pc' = [f_pc EXCEPT ![h] = "status"]
    /\ UNCHANGED <<f_status, f_failed_attempts, f_lock, f_should_stop,
                   f_iteration, f_calls>>
    /\ UNCHANGED <<vars, coreLibVars, imgVars, radVars, unitVars, fThreadVars>>

\* _start: self.update_batch_status(); the POST is sent or its exception
\* is caught and printed
F_UpdateBatchStatus(h) ==
    /\ f_pc[h] = "status"
    /\ f_calls' = [f_calls EXCEPT ![h] = Append(@, "update_batch_status")]
    /\ f_pc' = [f_pc EXCEPT ![h] = "increment"]
    /\ UNCHANGED <<f_status, f_failed_attempts, f_lock, f_should_stop,
                   f_iteration, f_results, fetch_results, status_cache>>
    /\ UNCHANGED <<vars, coreLibVars, imgVars, radVars, unitVars, fThreadVars>>

\* _start: self.iteration += 1
F_Increment(h) ==
    /\ f_pc[h] = "increment"
    /\ f_iteration' = [f_iteration EXCEPT ![h] = @ + 1]
    /\ f_calls' = [f_calls EXCEPT ![h] = Append(@, "iteration += 1")]
    /\ f_pc' = [f_pc EXCEPT ![h] = "loop"]
    /\ UNCHANGED <<f_status, f_failed_attempts, f_lock, f_should_stop,
                   f_results, fetch_results, status_cache>>
    /\ UNCHANGED <<vars, coreLibVars, imgVars, radVars, unitVars, fThreadVars>>

FetchInit ==
    /\ PipelineIdle
    /\ CoreLibIdle
    /\ ImgIdle
    /\ RadIdle
    /\ UnitIdle
    /\ FetchThreadsIdle
    /\ f_status = [g \in Galaxies |-> "Pending"]
    /\ f_failed_attempts = [g \in Galaxies |-> 0]
    /\ f_lock = [g \in Galaxies |-> NoHost]
    /\ f_pc = [h \in Hosts |-> "loop"]
    /\ f_should_stop = [h \in Hosts |-> FALSE]
    /\ f_iteration = [h \in Hosts |-> 0]
    /\ f_results = [h \in Hosts |-> <<>>]
    /\ fetch_results = [h \in Hosts |-> <<>>]
    /\ status_cache = [h \in Hosts |-> <<>>]
    /\ f_calls = [h \in Hosts |-> <<>>]

FetchNext ==
    \E h \in Hosts :
        \/ F_LoopTest(h)
        \/ F_Select(h)
        \/ F_SelectDbError(h)
        \/ F_SelectCommit(h)
        \/ F_Fetch(h)
        \/ F_Update(h)
        \/ F_UpdateDbError(h)
        \/ F_UpdateBatchStatus(h)
        \/ F_Increment(h)

FetchSpec == FetchInit /\ [][FetchNext]_fHostVars

\* --------------------------- the worker threads of FetchScript.run_batch

Threads == 1..FetchThreadCount

\* _run: for i in range(parallel_index, len(arg_list), parallel_count)
T_Range(k) ==
    /\ t_pc[k] = "range"
    /\ t_pc' = [t_pc EXCEPT ![k] = IF t_i[k] < t_rows THEN "function" ELSE "exit"]
    /\ UNCHANGED <<t_rows, f_iteration_progress, t_i, t_loaded, t_result_list,
                   t_returned>>
    /\ UNCHANGED <<vars, coreLibVars, imgVars, radVars, unitVars, fHostVars>>

\* _run: result_list[i] = function(*arg_list[i]); parallel_fetch returns a
\* tuple whether the download succeeded or not
T_Function(k) ==
    /\ t_pc[k] = "function"
    /\ \E ok \in BOOLEAN :
          t_result_list' = [t_result_list EXCEPT ![t_i[k] + 1] =
              parallel_fetch([source_id |-> t_i[k] + 1, failed_attempts |-> 0], ok)]
    /\ t_pc' = [t_pc EXCEPT ![k] = "load"]
    /\ UNCHANGED <<t_rows, f_iteration_progress, t_i, t_loaded, t_returned>>
    /\ UNCHANGED <<vars, coreLibVars, imgVars, radVars, unitVars, fHostVars>>

\* update_progress: pbar.update(), then self.iteration_progress += 1 reads
\* the attribute
T_Load(k) ==
    /\ t_pc[k] = "load"
    /\ t_loaded' = [t_loaded EXCEPT ![k] = f_iteration_progress]
    /\ t_pc' = [t_pc EXCEPT ![k] = "store"]
    /\ UNCHANGED <<t_rows, f_iteration_progress, t_i, t_result_list, t_returned>>
    /\ UNCHANGED <<vars, coreLibVars, imgVars, radVars, unitVars, fHostVars>>

\* update_progress: self.iteration_progress += 1 stores the sum; the next
\* element of the range
T_Store(k) ==
    /\ t_pc[k] = "store"
    /\ f_iteration_progress' = t_loaded[k] + 1
    /\ t_i' = [t_i EXCEPT ![k] = @ + FetchThreadCount]
    /\ t_pc' = [t_pc EXCEPT ![k] = "range"]
    /\ UNCHANGED <<t_rows, t_loaded, t_result_list, t_returned>>
    /\ UNCHANGED <<vars, coreLibVars, imgVars, radVars, unitVars, fHostVars>>

\* run_in_parallel: every thread is joined, result_list is returned
T_Join ==
    /\ ~t_returned
    /\ \A k \in Threads : t_pc[k] = "exit"
    /\ t_returned' = TRUE
    /\ UNCHANGED <<t_rows, f_iteration_progress, t_pc, t_i, t_loaded,
                   t_result_list>>
    /\ UNCHANGED <<vars, coreLibVars, imgVars, radVars, unitVars, fHostVars>>

\* run_batch has set iteration_progress to 0 and selected 1..MaxItems rows;
\* run_in_parallel has started its threads
ProgressInit ==
    /\ PipelineIdle
    /\ CoreLibIdle
    /\ ImgIdle
    /\ RadIdle
    /\ UnitIdle
    /\ FetchHostsIdle
    /\ t_rows \in 1..MaxItems
    /\ f_iteration_progress = 0
    /\ t_pc = [k \in Threads |-> "range"]
    /\ t_i = [k \in Threads |-> k - 1]
    /\ t_loaded = [k \in Threads |-> 0]
    /\ t_result_list = [i \in 1..t_rows |-> NoneResult]
    /\ t_returned = FALSE

ProgressNext ==
    \/ \E k \in Threads :
          \/ T_Range(k)
          \/ T_Function(k)
          \/ T_Load(k)
          \/ T_Store(k)
    \/ T_Join

ProgressSpec == ProgressInit /\ [][ProgressNext]_fThreadVars

\* ------------------------------------------------------------- properties

HoldsLock(h) == {u \in Units : lock[u] = h}

\* C1: the rows held by two open claim transactions never overlap.
C1_ExclusiveClaims ==
    \A h1 \in Hosts : \A h2 \in Hosts :
        (h1 # h2 /\ tx_open[h1] /\ tx_open[h2])
            => SeqRange(metadata_list[h1]) \cap SeqRange(metadata_list[h2]) = {}

C1_Witness ==
    \E h1 \in Hosts : \E h2 \in Hosts :
        /\ h1 # h2
        /\ tx_open[h1] /\ metadata_list[h1] # <<>>
        /\ tx_open[h2] /\ metadata_list[h2] # <<>>

\* C2: a unit whose outcome has been committed, as succeeded or as failed,
\* is never among the rows of a later claim.
C2_TerminalNeverReclaimed ==
    \A h \in Hosts :
        tx_open[h] => SeqRange(metadata_list[h]) \cap terminal = {}

C4_EmptyClaimState ==
    \A h \in Hosts :
        last_end[h] = "empty" =>
            /\ should_stop[h]
            /\ pc[h] \in {"status", "loop", "complete", "done"}
            /\ ~tx_open[h]
            /\ HoldsLock(h) = {}
            /\ complete_calls[h] = (IF pc[h] = "done" THEN 1 ELSE 0)

C4_EmptyClaimStep ==
    \A h \in Hosts :
        (pc[h] = "claim" /\ last_end'[h] = "empty") =>
            /\ has_error' = has_error
            /\ total_error' = total_error
            /\ running_count' = running_count
            /\ lock' = lock
            /\ tx_writes'[h] = <<>>
            /\ process_results'[h] = <<>>

C4_EmptyClaimStops ==
    /\ []C4_EmptyClaimState
    /\ [][C4_EmptyClaimStep]_vars
    /\ \A h \in Hosts : (last_end[h] = "empty") ~> (pc[h] = "done")

C4_Witness ==
    \E h \in Hosts : last_end[h] = "empty" /\ pc[h] = "done" /\ complete_calls[h] = 1

\* C5: once a stop has been requested and the loop thread has come to its
\* end, the completion callback has run exactly once.
C5_StopLeadsToCallback ==
    \A h \in Hosts :
        (should_stop[h] /\ pc[h] \in {"done", "dead"}) => complete_calls[h] = 1

\* C6: a stop that arrives while a batch is in flight changes nothing of
\* that batch, which goes on to write every outcome, and no run_batch is
\* started while the flag is set.
C6_StopStep ==
    \A h \in Hosts :
        /\ should_stop[h] => ~(pc[h] \notin InBatch /\ pc'[h] \in InBatch)
        /\ (~should_stop[h] /\ should_stop'[h] /\ metadata_list[h] # <<>>) =>
              /\ pc'[h] = pc[h]
              /\ tx_open'[h] = tx_open[h]
              /\ metadata_list'[h] = metadata_list[h]
              /\ process_results'[h] = process_results[h]
              /\ tx_writes'[h] = tx_writes[h]
              /\ lock' = lock
        /\ (should_stop[h] /\ pc[h] = "process" /\ pc'[h] = "commit") =>
              Len(tx_writes'[h]) = Len(metadata_list[h])
        /\ (should_stop[h] /\ pc[h] = "commit" /\ last_end'[h] = "commit") =>
              /\ has_error' = ApplyWrites(Store, tx_writes[h]).has_error
              /\ running_count' = ApplyWrites(Store, tx_writes[h]).running_count

C6_CooperativeStop == [][C6_StopStep]_vars

\* the flag is set while a batch is in flight, which has written all its
\* outcomes and is about to commit
C6_Witness ==
    \E h \in Hosts :
        /\ should_stop[h]
        /\ pc[h] = "commit"
        /\ Len(tx_writes[h]) = BatchSpan

\* C7: a transaction that ends without commit after rows were claimed
\* stores none of its writes and leaves every claimed row unlocked and
\* claimable; a host without open transaction holds no row lock.
C7_AbortStep ==
    \A h \in Hosts :
        (tx_open[h] /\ ~tx_open'[h] /\ last_end'[h] \notin {"commit", "empty"}) =>
            /\ has_error' = has_error
            /\ error_count' = error_count
            /\ total_error' = total_error
            /\ running_count' = running_count
            /\ \A i \in 1..Len(metadata_list[h]) :
                  LET u == metadata_list[h][i] IN
                  /\ lock'[u] = NoHost
                  /\ ~has_error'[u]
                  /\ running_count'[u] < MAX_RUNNING_ERROR_COUNT

C7_NoLockWithoutTx ==
    \A h \in Hosts : ~tx_open[h] => HoldsLock(h) = {}

C7_AbortReleases == []C7_NoLockWithoutTx /\ [][C7_AbortStep]_vars

\* a batch with pending writes was rolled back, and its rows are free
C7_Witness ==
    \E h \in Hosts :
        /\ last_end[h] = "database_error"
        /\ pc[h] = "status"
        /\ successful[h] + failed[h] > 0
        /\ HoldsLock(h) = {}

\* C8: the committed tables change only in the commit of one batch, which
\* installs all of its writes in that one step and releases its claim.
C8_VisibilityStep ==
    (has_error' # has_error \/ error_count' # error_count
        \/ total_error' # total_error \/ running_count' # running_count) =>
        \E h \in Hosts :
            /\ pc[h] = "commit"
            /\ last_end'[h] = "commit"
            /\ Len(tx_writes[h]) = Len(metadata_list[h])
            /\ has_error' = ApplyWrites(Store, tx_writes[h]).has_error
            /\ total_error' = ApplyWrites(Store, tx_writes[h]).total_error
            /\ running_count' = ApplyWrites(Store, tx_writes[h]).running_count
            /\ \A i \in 1..Len(metadata_list[h]) : lock'[metadata_list[h][i]] = NoHost

C8_AtomicVisibility == [][C8_VisibilityStep]_vars

\* every outcome of a batch of two is written and none is visible yet
C8_Witness ==
    \E h \in Hosts :
        /\ pc[h] = "commit"
        /\ Len(tx_writes[h]) = BatchSpan
        /\ \A i \in 1..Len(metadata_list[h]) :
              LET u == metadata_list[h][i] IN
              ~has_error[u] /\ running_count[u] = sum_count[u]
                  /\ running_count[u] < MAX_RUNNING_ERROR_COUNT

\* C9: a database error inside a batch never ends the loop thread.
C9_DbErrorKeepsLoop ==
    \A h \in Hosts : last_end[h] = "database_error" => pc[h] # "dead"

\* C10: the stored totals of every unit are its initial totals plus the
\* accumulators of all its committed successes.
C10_AdditiveTotals ==
    \A u \in Units :
        /\ total_error[u] = sum_total[u]
        /\ running_count[u] = sum_count[u]

\* the (None, True)-shaped result of a failed item
FailedSlot == [kind |-> "failed", value |-> 0]

\* C11: when the function raises for an item, the worker goes on with its
\* other items, the returned slot of the raising item holds a
\* (None, failed=True)-shaped result, and every other item has its result.
C11_RaiseGivesFailedResult ==
    co_pc = "returned" =>
        \A i \in Indices :
            /\ calls[i] # <<>>
            /\ IF arg_list[i + 1] \in raising
               THEN returned[i] = FailedSlot
               ELSE returned[i] = ValueSlot(plus_one(arg_list[i + 1]))

\* C12: the returned list has the length of arg_list, and its i-th element
\* is the result of the function on the i-th item, for every thread_count
\* and every interleaving of the threads.
C12_OrderPreserving ==
    co_pc = "returned" =>
        /\ DOMAIN returned = Indices
        /\ \A i \in Indices :
              arg_list[i + 1] \notin raising =>
                  returned[i] = ValueSlot(plus_one(arg_list[i + 1]))

\* a call with several threads on items that are not in ascending order
\* has returned
C12_Witness ==
    /\ co_pc = "returned"
    /\ Len(arg_list) = MaxItems
    /\ thread_count > 1
    /\ raising = {}
    /\ arg_list[1] > arg_list[2]

\* C13: the function is called on index i by the worker i mod thread_count
\* and by no other, at most once, and exactly once when the call returns:
\* worker k has the indices k, k + W, k + 2W, ...
C13_StrideSlices ==
    /\ \A i \in Indices :
          /\ Len(calls[i]) <= 1
          /\ \A n \in 1..Len(calls[i]) : calls[i][n] = i % thread_count
    /\ \A k \in Workers :
          w_pc[k] = "terminated" =>
              {i \in Indices : calls[i] = <<k>>}
                  = {i \in Indices : \E m \in 0..Len(arg_list) : i = k + m * thread_count}
    /\ co_pc = "returned" => \A i \in Indices : Len(calls[i]) = 1

\* a call where one worker had two indices and another had one has returned
C13_Witness ==
    /\ co_pc = "returned"
    /\ thread_count = 2
    /\ Len(arg_list) = 3
    /\ calls[0] = <<0>> /\ calls[1] = <<1>> /\ calls[2] = <<0>>

\* C14: run_in_parallel has returned only when every thread it started has
\* ended.
C14_JoinedBeforeReturn ==
    co_pc = "returned" =>
        /\ threads = thread_count
        /\ \A k \in Workers : w_pc[k] = "terminated"

\* a call with the largest number of threads on a full arg_list has returned
C14_Witness ==
    /\ co_pc = "returned"
    /\ thread_count = MaxWorkers
    /\ Len(arg_list) = MaxItems
    /\ \A k \in Workers : w_pc[k] = "terminated"

\* the distance of two angles on the half turn: the least d >= 0 with
\* expected - actual = d or -d up to a multiple of 180
IsHalfTurnDistance(d, expected, actual) ==
    /\ d \in 0..90
    /\ \E k \in -4..4 :
          \/ expected - actual = d + 180 * k
          \/ expected - actual = 180 * k - d

\* C15: update(expected, actual) returns d = min(|expected - actual| mod
\* 180, 180 - that), which lies in 0..90, adds exactly d to total_error and
\* exactly 1 to running_count; a difference of 0 gives 0 and one of 90
\* gives 90.
C15_UpdateFolds ==
    c_last.op = "update" =>
        LET diff == Abs(c_last.expected - c_last.actual) % 180 IN
        /\ c_last.ret = Min(diff, 180 - diff)
        /\ IsHalfTurnDistance(c_last.ret, c_last.expected, c_last.actual)
        /\ c_last.after.total_error = c_last.before.total_error + c_last.ret
        /\ c_last.after.running_count = c_last.before.running_count + 1
        /\ CalcOf(c_last.self) = c_last.after
        /\ (c_last.expected = c_last.actual) => c_last.ret = 0
        /\ (c_last.expected - c_last.actual = 90) => c_last.ret = 90

\* an update with a difference beyond the half turn, folded back
C15_Witness ==
    /\ c_last.op = "update"
    /\ c_last.expected = 271
    /\ c_last.actual = -90
    /\ c_last.ret = 1
    /\ c_last.before.running_count > 0

\* C16, as stated: for all valid records, merge is commutative and
\* associative in both fields.
C16_MergeAssociativeCommutative ==
    /\ ({"ab", "ba"} \subseteq DOMAIN m_res) => m_res["ab"] = m_res["ba"]
    /\ ({"ab_c", "a_bc"} \subseteq DOMAIN m_res) => m_res["ab_c"] = m_res["a_bc"]

\* every total of the three records is a whole number and their sum is
\* exactly representable
ExactTotals ==
    m_a.total_error + m_b.total_error + m_c.total_error <= Pow2(MantissaBits)

\* C16, amended: merge sums both fields; it is commutative for all valid
\* records, associative in running_count for all valid records, and
\* associative in total_error when the totals are whole numbers whose sum
\* is exactly representable as a float.
C16_MergeExactAssociative ==
    /\ ("ab" \in DOMAIN m_res) =>
          /\ m_res["ab"].running_count = m_a.running_count + m_b.running_count
          /\ ExactTotals => m_res["ab"].total_error = m_a.total_error + m_b.total_error
    /\ ({"ab", "ba"} \subseteq DOMAIN m_res) => m_res["ab"] = m_res["ba"]
    /\ ({"ab_c", "a_bc"} \subseteq DOMAIN m_res) =>
          /\ m_res["ab_c"].running_count = m_res["a_bc"].running_count
          /\ ExactTotals => m_res["ab_c"] = m_res["a_bc"]

\* three different non-empty records have been merged in both groupings
C16_Witness ==
    /\ {"ab", "ba", "ab_c", "a_bc"} \subseteq DOMAIN m_res
    /\ ExactTotals
    /\ m_a.total_error = 75 /\ m_a.running_count = 2
    /\ m_b.total_error = 1 /\ m_b.running_count = 1
    /\ m_c.total_error = 0 /\ m_c.running_count = 0
    /\ m_res["ab_c"] = [total_error |-> 76, running_count |-> 3]

\* C17: get_average raises, leaving the object unchanged, exactly when
\* running_count = 0, and returns total_error / running_count otherwise.
C17_GetAverage ==
    c_last.op = "get_average" =>
        /\ c_last.raised <=> (c_last.before.running_count = 0)
        /\ c_last.after = c_last.before
        /\ CalcOf(c_last.self) = c_last.before
        /\ ~c_last.raised =>
              /\ c_last.ret = c_last.before.total_error
              /\ c_last.den = c_last.before.running_count
              /\ c_last.den > 0

\* get_average has raised on an object without data
C17_Witness ==
    /\ c_last.op = "get_average"
    /\ c_last.raised
    /\ c_last.before.running_count = 0
    /\ c_ops > 1

\* C18: both fields of an object built from the default by update and
\* merge are never negative, and no call decreases or resets either.
C18_NonNegative ==
    \A n \in Calcs : CalcOf(n).total_error >= 0 /\ CalcOf(n).running_count >= 0

C18_StepNeverDecreases ==
    /\ calc'.total_error >= calc.total_error
    /\ calc'.running_count >= calc.running_count
    /\ calc2'.total_error >= calc2.total_error
    /\ calc2'.running_count >= calc2.running_count

C18_AccumulatorMonotone == []C18_NonNegative /\ [][C18_StepNeverDecreases]_calcVars

\* an object with data has been updated again and merged
C18_Witness ==
    /\ c_last.op = "merge"
    /\ c_last.before.running_count > 0
    /\ c_last.after.running_count > c_last.before.running_count
    /\ c_last.after.total_error > c_last.before.total_error

\* the sum of the angles of the rotate transforms in a history
RECURSIVE RotateSum(_)
RotateSum(hist) ==
    IF hist = <<>> THEN 0
    ELSE (IF Head(hist).t = "rotate" THEN Head(hist).p ELSE 0) + RotateSum(Tail(hist))

\* every result built so far, finished or not
BuiltResults ==
    SeqRange(a_results) \cup (IF a_result = NoAugmentResult THEN {} ELSE {a_result})

\* C19: the angle_delta of every result is the sum of the angles of the
\* rotate transforms applied to its image, mod 180, so it lies in 0..179;
\* a lone rotate by a gives a, and resample and blur add nothing.
C19_AngleDelta ==
    \A r \in BuiltResults :
        LET hist == r.result_image.hist IN
        /\ r.angle_delta = RotateSum(hist) % 180
        /\ r.angle_delta \in 0..179
        /\ (Len(hist) = 1 /\ hist[1].t = "rotate") => r.angle_delta = hist[1].p
        /\ (\A i \in 1..Len(hist) : hist[i].t # "rotate") => r.angle_delta = 0

\* a returned result whose rotate was followed by the two other transforms
C19_Witness ==
    /\ a_pc = "returned"
    /\ \E i \in 1..Len(a_results) :
          LET r == a_results[i] IN
          /\ Len(r.result_image.hist) = 3
          /\ r.result_image.hist[1] = [t |-> "rotate", p |-> 179]
          /\ r.angle_delta = 179

\* C20: random_augment returns exactly count results; each is made by 1 to
\* 3 different transforms of rotate, resample and blur, each at most once,
\* and every transform after the first works on the output of the one
\* before it.
C20_CountAndComposition ==
    /\ a_pc # "raised"
    /\ a_pc = "returned" => Len(a_results) = a_count
    /\ \A i \in 1..Len(a_results) :
          LET r == a_results[i]
              hist == r.result_image.hist
          IN /\ Len(hist) \in 1..3
             /\ \A n \in 1..Len(hist) : hist[n].t \in SeqRange(augmenters)
             /\ \A n \in 1..Len(hist) : \A m \in 1..Len(hist) :
                   n # m => hist[n].t # hist[m].t
             /\ hist = r.metadata

\* two results have been returned, one of them made by three transforms
C20_Witness ==
    /\ a_pc = "returned"
    /\ a_count = 2
    /\ Len(a_results) = 2
    /\ Len(a_results[1].metadata) = 3
    /\ Len(a_results[2].metadata) = 1

\* C21: for every square input image the best angle that get_rotation
\* returns is a whole number of degrees in [0,180).  The last column of the
\* sinogram is the one of theta = pi, 180 degrees, and get_rotation returns
\* it when the first maximum in row-major order lies there.
C21_AngleBelowHalfTurn ==
    \A k \in 1..Len(rotations) : thetas[rotations[k] + 1] \in 0..179

\* the cells of the sinogram that hold its global maximum
MaxCells(s) ==
    {c \in Cells(s.shape) : \A d \in Cells(s.shape) : s.data[d] <= s.data[c]}

\* c comes before d in row-major order
RowMajorBefore(c, d) == c[1] < d[1] \/ (c[1] = d[1] /\ c[2] < d[2])

\* C22: get_rotation returns the column of a cell that holds the global
\* maximum of the sinogram, the first such cell in row-major order when
\* several hold it, and a second call returns the same angle.
C22_FirstMaximumColumn ==
    \A k \in 1..Len(rotations) :
        LET s == transform_result.sinogram
        IN  /\ \E c \in MaxCells(s) :
                /\ c[2] = rotations[k]
                /\ \A d \in MaxCells(s) : d = c \/ RowMajorBefore(c, d)
            /\ rotations[k] = rotations[1]

\* two calls were made on a sinogram whose maximum is held by cells of
\* different columns, the first of them not in the lowest such column
C22_Witness ==
    /\ Len(rotations) = 2
    /\ \E c, d \in MaxCells(transform_result.sinogram) :
        /\ RowMajorBefore(c, d)
        /\ d[2] < c[2]
        /\ rotations[2] = c[2]

\* C23: transform raises for every image whose two dimensions differ,
\* before any sinogram exists, and accepts every square image.
C23_SquareOrRaise ==
    img_pc \in {"raised", "transformed"} =>
        /\ transform_result.raised <=> raw_image.shape[1] # raw_image.shape[2]
        /\ transform_result.raised =>
            /\ img_pc = "raised"
            /\ transform_result.sinogram = NoImage
            /\ rotations = <<>>
        /\ ~transform_result.raised =>
            /\ img_pc = "transformed"
            /\ transform_result.sinogram.shape = <<Side, fineness>>

\* transform raised for an image that is higher than wide and holds a
\* pixel that is not zero
C23_Witness ==
    /\ img_pc = "raised"
    /\ raw_image.shape[1] > raw_image.shape[2]
    /\ \E p \in Cells(raw_image.shape) : raw_image.data[p] > 0

\* C24: the mask of generate includes a pixel exactly when its distance
\* from the centre (h // 2, w // 2) is at most half of the shorter
\* dimension, and apply_mask keeps the included pixels and zeroes the
\* others.  generate takes half of shape[0], the height, as the radius.
C24_InscribedCircleMask ==
    img_pc \in {"masked", "denoised", "raised", "transformed"} =>
        LET h == raw_image.shape[1]
            w == raw_image.shape[2]
            half == Min(h, w) \div 2
            dist2(p) == (p[1] - h \div 2) * (p[1] - h \div 2)
                            + (p[2] - w \div 2) * (p[2] - w \div 2)
        IN  \A p \in Cells(raw_image.shape) :
                /\ mask[p] <=> dist2(p) <= half * half
                /\ masked_image.data[p] = IF mask[p] THEN raw_image.data[p] ELSE 0

\* the positions outside of the mask
Outside == {p \in Cells(raw_image.shape) : ~mask[p]}

\* C25: denoise takes as ambient noise the sum of the pixels outside of the
\* mask over the number of those pixels, subtracts it from every pixel and
\* clamps at zero, so that no pixel of the result is negative.  The code
\* divides the sum by the number of all pixels.
C25_AmbientIsOutsideMean ==
    (img_pc \in {"denoised", "raised", "transformed"} /\ Outside # {}) =>
        LET sum == np_sum(raw_image.data, Outside)
            count == Cardinality(Outside)
        IN  /\ denoised.ambient_noise.num * count = sum * denoised.ambient_noise.den
            /\ \A p \in Cells(raw_image.shape) :
                /\ denoised.data[p] >= 0
                /\ denoised.data[p] * count =
                      denoised.den * (IF raw_image.data[p] * count < sum THEN 0
                                      ELSE raw_image.data[p] * count - sum)

\* the loop state of the script, which a request must leave alone
LoopState == <<r_pc, r_iteration, iteration_progress, metadata, result_rows,
               galaxy_status, server, executed, shutdown_step>>

C26_StatusInRange ==
    /\ r_iteration >= 0
    /\ 0 <= iteration_progress /\ iteration_progress <= SQL_BATCH_SIZE
    /\ response.route = "/status" =>
        /\ 0 <= response.body.status.iteration_progress
        /\ response.body.status.iteration_progress
              <= response.body.status.iteration_max_progress

C26_StatusStep ==
    /\ r_iteration' = r_iteration \/ r_iteration' = r_iteration + 1
    /\ (r_iteration' = r_iteration + 1) <=> (r_pc = "after_batch" /\ r_pc' = "loop")
    /\ (requests' # requests /\ response'.route = "/status") =>
        /\ response'.code = 200
        /\ response'.body.status.iteration = r_iteration
        /\ response'.body.status.iteration_progress = iteration_progress

\* C26: a status query returns the current iteration of the script, which
\* starts at 0, never decreases and grows by exactly 1 per completed
\* run_batch, together with progress counters for which
\* 0 <= iteration_progress <= iteration_max_progress.
C26_StatusReportsIteration ==
    /\ r_iteration = 0
    /\ []C26_StatusInRange
    /\ [][C26_StatusStep]_radVars

\* a status query answered in the second iteration, after every galaxy of a
\* full batch was processed
C26_Witness ==
    /\ response.route = "/status"
    /\ response.body.status.iteration = 1
    /\ response.body.status.iteration_progress = SQL_BATCH_SIZE
    /\ r_pc = "process"

C28_ControlStep ==
    (requests' # requests /\ response'.route = "/control") =>
        IF response'.action = "stop"
        THEN /\ r_should_stop'
             /\ response'.code = 200
             /\ "message" \in DOMAIN response'.body
        ELSE /\ response'.code = 400
             /\ "error" \in DOMAIN response'.body
             /\ r_should_stop' = r_should_stop
             /\ LoopState' = LoopState

\* C28: POST /control with the action "stop" sets the stop flag and is
\* acknowledged; any other action is rejected with an error response and
\* leaves the stop flag and the running loop unchanged.
C28_OnlyStopIsAccepted == [][C28_ControlStep]_radVars

\* an action other than "stop" was rejected in the middle of a batch, and
\* the stop flag is still unset
C28_Witness ==
    /\ response.route = "/control"
    /\ response.action = "start"
    /\ response.code = 400
    /\ ~r_should_stop
    /\ r_pc = "process"
    /\ iteration_progress = 1

\* band data the claim calls invalid: all zero, or holding a value that is
\* not finite
InvalidBand(data) ==
    \/ \A k \in DOMAIN data : data[k] = "zero"
    \/ \E k \in DOMAIN data : data[k] \in {"nan", "inf"}

\* the calls of the estimator and of the augmentation engine
EstimatorCalls ==
    {"transform", "estimate_rotation", "random_augment", "generate_augmentations", "update"}

\* C29: a band whose data is invalid (all zero, or holding a value that is
\* not finite) is short-circuited to a failure: neither the estimator nor
\* the augmentation engine runs for it, no error statistics are added, and
\* it is committed as failed and not claimed again.  load_fits only tests
\* for NaN, and run_script marks the row of bands whose id is the id of the
\* row of rotations (C30).
C29_InvalidBandShortCircuits ==
    (InvalidBand(u_data) /\ u_pc \in {"processed", "committed"}) =>
        /\ u_result.is_error
        /\ u_result.running_count = 0
        /\ \A k \in 1..Len(u_calls) : u_calls[k] \notin EstimatorCalls
        /\ u_updated = {}
        /\ u_pc = "committed" => u_metadata[1] \in u_failed
        /\ u_claims = 1

\* the same for AugmentScript alone
C29_AugmentScriptShortCircuits == u_script = "augment" => C29_InvalidBandShortCircuits

\* C30: every outcome a batch commits is written to the record of the
\* band that was claimed: a success adds to the row of rotations of that
\* band, a failure marks the row of bands of that band.
C30_OutcomeOnOwnRecord ==
    \A h \in Hosts : \A i \in 1..Len(tx_writes[h]) :
        /\ i <= Len(metadata_list[h])
        /\ TargetUnits(tx_writes[h][i]) = {metadata_list[h][i]}

\* the units that are not terminal: still selected by augment_view
NonTerminal == {u \in Units : InAugmentView(u)}

\* C31: a claim comes back empty, and the host schedules stop, only when
\* every unit of the backlog is terminal: no unit is pending, and none is
\* held by another host in a batch that has not committed.
C31_EmptyClaimOnlyWhenDrained ==
    [][\A h \in Hosts :
          (pc[h] = "claim" /\ last_end'[h] = "empty" /\ should_stop'[h]) =>
              NonTerminal = {}]_vars

\* an empty claim next to a unit that another host holds uncommitted
C31_Witness ==
    \E h \in Hosts :
        /\ last_end[h] = "empty"
        /\ \E u \in NonTerminal : lock[u] \notin {NoHost, h}

\* the first n pending units that no other transaction has locked, in the
\* sort order of the claim query
FirstPendingUnlocked(h, n) ==
    LET free == SelectSeq(AllUnits, LAMBDA u : InAugmentView(u) /\ SkipLocked(h, u))
    IN SubSeq(free, 1, IF Len(free) < n THEN Len(free) ELSE n)

\* C33: a claim returns at most N units, N the configured batch limit, and
\* they are the first pending units not locked by another transaction, in
\* the sort order of the claim query.
C33_ClaimReturnsFirstN ==
    [][\A h \in Hosts :
          (pc[h] = "claim" /\ pc'[h] \in {"process", "status"}) =>
              /\ Len(metadata_list'[h]) <= THREAD_COUNT
              /\ metadata_list'[h] = FirstPendingUnlocked(h, THREAD_COUNT)]_vars

\* a host holds a later batch while the units before it are pending and
\* unlocked
C33_Witness ==
    \E h \in Hosts :
        /\ pc[h] = "process"
        /\ metadata_list[h] # <<>>
        /\ \E u \in Units :
              /\ u < metadata_list[h][1]
              /\ InAugmentView(u)
              /\ lock[u] = NoHost

\* the statements of a transaction that write an outcome for unit u
OutcomeWrites(h, u) ==
    {i \in 1..Len(tx_writes[h]) : u \in TargetUnits(tx_writes[h][i])}

\* C34: in a batch that commits, each claimed unit has received exactly one
\* outcome write, a success update or a failure mark, and the numbers of
\* successful and failed outcomes add up to the number of claimed units.
C34_OneOutcomePerUnit ==
    \A h \in Hosts :
        pc[h] = "commit" =>
            /\ \A u \in SeqRange(metadata_list[h]) :
                  Cardinality(OutcomeWrites(h, u)) = 1
            /\ Len(tx_writes[h]) = Len(metadata_list[h])
            /\ successful[h] + failed[h] = Len(metadata_list[h])
            /\ successful[h] =
                  Cardinality({i \in 1..Len(tx_writes[h]) :
                                  tx_writes[h][i].effect = "add_totals"})
            /\ failed[h] =
                  Cardinality({i \in 1..Len(tx_writes[h]) :
                                  tx_writes[h][i].effect = "set_has_error"})

\* a batch about to commit that holds a success and a failure
C34_Witness ==
    \E h \in Hosts :
        /\ pc[h] = "commit"
        /\ successful[h] = 1
        /\ failed[h] = 1
        /\ Len(metadata_list[h]) = 2

\* C36: build with a mask generator and a denoiser subtracts the ambient
\* noise that the denoiser estimates from the band's pixels outside of the
\* aperture as they were before masking, and returns the masked image with
\* that noise removed and clamped at zero.
C36_NoiseFromUnmaskedOutside ==
    img_pc = "built" =>
        LET m == generate(raw_image.shape)
            masked == apply_mask(raw_image)
            noise == denoise(raw_image, m).ambient_noise
            difference(p) == masked.data[p] * noise.den - noise.num
        IN  /\ built.ambient_noise = noise
            /\ \A p \in Cells(raw_image.shape) :
                  built.data[p] = IF difference(p) < 0 THEN 0 ELSE difference(p)

\* a built band with a lit pixel outside of the aperture
C36_Witness ==
    /\ img_pc = "built"
    /\ \E p \in Cells(raw_image.shape) :
          /\ ~generate(raw_image.shape)[p]
          /\ raw_image.data[p] > 0

\* the calls of one iteration of the host loop
LoopPattern == <<"run_batch", "update_batch_status", "iteration += 1">>

\* the calls of a host follow the loop pattern, call by call
FollowsLoopPattern(h) ==
    \A i \in 1..Len(f_calls[h]) : f_calls[h][i] = LoopPattern[((i - 1) % 3) + 1]

\* C35: each iteration of the host loop performs run_batch, then
\* update_batch_status, then the iteration increment: update_batch_status
\* is called exactly once after each run_batch, the one that found no work
\* included, and never while a run_batch of the host is running.
C35_StatusAfterEachBatch ==
    \A h \in Hosts :
        /\ FollowsLoopPattern(h)
        /\ f_pc[h] \in {"loop", "done", "dead"} => Len(f_calls[h]) % 3 = 0
        /\ f_iteration[h] * 3 <= Len(f_calls[h])
        /\ Len(f_calls[h]) <= f_iteration[h] * 3 + 2

\* the order alone: what a host has called is a prefix of the repeated
\* pattern, and the counter has counted the finished iterations
C35_OrderOfReturnedBatches ==
    \A h \in Hosts :
        /\ FollowsLoopPattern(h)
        /\ f_iteration[h] * 3 <= Len(f_calls[h])
        /\ Len(f_calls[h]) <= f_iteration[h] * 3 + 2

\* a script thread has ended in run_batch after an iteration that was
\* complete
C35_Witness ==
    \E h \in Hosts :
        /\ f_pc[h] = "dead"
        /\ f_iteration[h] = 1
        /\ Len(f_calls[h]) = 4

\* the rows a host has selected and not yet written back
Selected(h) ==
    IF f_pc[h] \in {"selected", "fetch", "update"} THEN SourceIds(f_results[h]) ELSE {}

\* C37: a row that one host's run_batch has selected is not selected by
\* another host's run_batch until the first host has written the row's new
\* status.
C37_ExclusiveUntilStatusWritten ==
    \A h1 \in Hosts : \A h2 \in Hosts \ {h1} : Selected(h1) \cap Selected(h2) = {}

\* two hosts are fetching the same row
C37_Witness ==
    \E g \in Galaxies :
        \A h \in Hosts : f_pc[h] = "fetch" /\ g \in SourceIds(f_results[h])

\* C38: when run_in_parallel returns, iteration_progress is the number of
\* rows of the batch, however the worker threads that run update_progress
\* interleave.
C38_ProgressCountsRows ==
    t_returned => f_iteration_progress = t_rows

\* run_in_parallel has returned and an increment was lost
C38_Witness ==
    /\ t_returned
    /\ f_iteration_progress < t_rows
    /\ \A i \in 1..t_rows : t_result_list[i] # NoneResult

====
